---- MODULE Spec2Model ----
(***************************************************************************)
(* fanctl-daemon: the shared daemon state behind one tokio Mutex, the      *)
(* request dispatcher, the curve engine loop, the reconciler, the signal   *)
(* handler and the accept loop of src/bin/daemon.rs, with the curve,       *)
(* config, protocol and hwmon functions they call.                         *)
(***************************************************************************)
EXTENDS Integers, Sequences, FiniteSets, TLC

(***************************************************************************)
(* The machine the daemon runs on.                                         *)
(***************************************************************************)

\* The pwm channels /sys/class/hwmon holds, in the order discover_fans
\* returns them (sorted by id).
HwFans == <<"hwmon0/pwm1", "hwmon0/pwm2">>

\* The temperature inputs, in the order discover_temp_sensors returns them.
HwSensors == <<"hwmon0/temp1">>

\* A fan id and a sensor id that no discovery pass returns.
NoSuchFan == "hwmon9/pwm1"

NoSuchSensor == "hwmon9/temp1"

FanIds == {HwFans[i] : i \in 1..Len(HwFans)} \cup {NoSuchFan}

SensorIds == {HwSensors[i] : i \in 1..Len(HwSensors)} \cup {NoSuchSensor}

\* Sensor readings in degrees Celsius (tempN_input / 1000).
Temps == {40, 85}

\* The connections clients may open.
Conns == {"c1", "c2"}

\* How many request lines the clients send in all: while the daemon is
\* followed to its exit, while two clients set fans at the same time, and
\* while one client sends any request.
MaxRequests == 2

MaxConcurrent == 2

MaxDispatched == 2

\* The tasks that take the state lock.
NoOne == "none"

Range(s) == {s[i] : i \in 1..Len(s)}

(***************************************************************************)
(* curve.rs                                                                *)
(***************************************************************************)

CurvePoint(t, p) == [temp_c |-> t, pwm |-> p]

\* Vec::sort_by is stable: a point goes after every point whose temperature
\* is not greater than its own.
RECURSIVE InsertPoint(_, _)
InsertPoint(sorted, p) ==
    IF sorted = <<>> THEN <<p>>
    ELSE IF Head(sorted).temp_c <= p.temp_c
         THEN <<Head(sorted)>> \o InsertPoint(Tail(sorted), p)
         ELSE <<p>> \o sorted

RECURSIVE SortPoints(_)
SortPoints(points) ==
    IF points = <<>> THEN <<>>
    ELSE InsertPoint(SortPoints(SubSeq(points, 1, Len(points) - 1)),
                     points[Len(points)])

FanCurveNew(name, points) == [name |-> name, points |-> SortPoints(points)]

Clamp255(x) == IF x < 0 THEN 0 ELSE IF x > 255 THEN 255 ELSE x

\* f64::round of num / den, den > 0: half away from zero.
RoundDiv(num, den) ==
    IF num >= 0 THEN (2 * num + den) \div (2 * den)
    ELSE -((2 * (-num) + den) \div (2 * den))

\* A plausible slip: the fraction is measured from the upper point.
RECURSIVE InterpolateFromReversed(_, _, _)
InterpolateFromReversed(points, i, t) ==
    IF i >= Len(points) THEN points[Len(points)].pwm
    ELSE LET lo == points[i]
             hi == points[i + 1]
             range_t == hi.temp_c - lo.temp_c
         IN  IF t >= lo.temp_c /\ t <= hi.temp_c
             THEN IF range_t = 0 THEN lo.pwm
                  ELSE Clamp255(RoundDiv(lo.pwm * range_t
                                         + (hi.temp_c - t) * (hi.pwm - lo.pwm),
                                         range_t))
             ELSE InterpolateFromReversed(points, i + 1, t)

\* A plausible slip: the duty is cast to u8 without round(), which truncates.
RECURSIVE InterpolateFromTruncated(_, _, _)
InterpolateFromTruncated(points, i, t) ==
    IF i >= Len(points) THEN points[Len(points)].pwm
    ELSE LET lo == points[i]
             hi == points[i + 1]
             range_t == hi.temp_c - lo.temp_c
         IN  IF t >= lo.temp_c /\ t <= hi.temp_c
             THEN IF range_t = 0 THEN lo.pwm
                  ELSE Clamp255((lo.pwm * range_t
                                 + (t - lo.temp_c) * (hi.pwm - lo.pwm))
                                \div range_t)
             ELSE InterpolateFromTruncated(points, i + 1, t)

\* The first window (lo, hi) with lo.temp_c <= t <= hi.temp_c, from index i.
RECURSIVE InterpolateFrom(_, _, _)
InterpolateFrom(points, i, t) ==
    IF i >= Len(points) THEN points[Len(points)].pwm
    ELSE LET lo == points[i]
             hi == points[i + 1]
             range_t == hi.temp_c - lo.temp_c
         IN  IF t >= lo.temp_c /\ t <= hi.temp_c
             THEN IF range_t = 0 THEN lo.pwm
                  ELSE Clamp255(RoundDiv(lo.pwm * range_t
                                         + (t - lo.temp_c) * (hi.pwm - lo.pwm),
                                         range_t))
             ELSE InterpolateFrom(points, i + 1, t)

\* A plausible slip: below the first point the first segment is extended
\* instead of the first duty being returned.
InterpolateExtended(curve, t) ==
    LET points == curve.points
    IN  IF points = <<>> THEN 0
        ELSE IF Len(points) = 1 THEN points[1].pwm
        ELSE IF t <= points[1].temp_c
             THEN LET lo == points[1]
                      hi == points[2]
                      range_t == hi.temp_c - lo.temp_c
                  IN  IF range_t <= 0 THEN lo.pwm
                      ELSE Clamp255(RoundDiv(lo.pwm * range_t
                                             + (t - lo.temp_c) * (hi.pwm - lo.pwm),
                                             range_t))
        ELSE IF t >= points[Len(points)].temp_c THEN points[Len(points)].pwm
        ELSE InterpolateFrom(points, 1, t)

Interpolate(curve, t) ==
    LET points == curve.points
    IN  IF points = <<>> THEN 0
        ELSE IF Len(points) = 1 \/ t <= points[1].temp_c THEN points[1].pwm
        ELSE IF t >= points[Len(points)].temp_c THEN points[Len(points)].pwm
        ELSE InterpolateFrom(points, 1, t)

ValidateOk == "ok"

\* A plausible slip: < for <=, which lets two points share a temperature.
ValidateAllowsTies(curve) ==
    IF Len(curve.points) < 2 THEN "Curve must have at least 2 points"
    ELSE IF \E i \in 2..Len(curve.points) :
                curve.points[i].temp_c < curve.points[i - 1].temp_c
         THEN "Points must have strictly increasing temperatures"
         ELSE ValidateOk

Validate(curve) ==
    IF Len(curve.points) < 2 THEN "Curve must have at least 2 points"
    ELSE IF \E i \in 2..Len(curve.points) :
                curve.points[i].temp_c <= curve.points[i - 1].temp_c
         THEN "Points must have strictly increasing temperatures"
         ELSE ValidateOk

DefaultSilentCurve ==
    FanCurveNew("silent", << CurvePoint(30, 0), CurvePoint(50, 64),
                             CurvePoint(70, 153), CurvePoint(80, 204),
                             CurvePoint(90, 255) >>)

DefaultPerformanceCurve ==
    FanCurveNew("performance", << CurvePoint(30, 64), CurvePoint(50, 128),
                                  CurvePoint(65, 204), CurvePoint(75, 255) >>)

\* Vec<FanCurve>::iter().find(|c| c.name == name): the first match.
HasCurve(curves, name) == \E i \in 1..Len(curves) : curves[i].name = name

FindCurve(curves, name) ==
    curves[CHOOSE i \in 1..Len(curves) :
              /\ curves[i].name = name
              /\ \A j \in 1..(i - 1) : curves[j].name # name]

(***************************************************************************)
(* config.rs                                                               *)
(***************************************************************************)

Auto == [mode |-> "auto"]

Manual(p) == [mode |-> "manual", pwm |-> p]

Curve(n, s) == [mode |-> "curve", curve_name |-> n, temp_sensor_id |-> s]

\* A fan id the HashMap holds no entry for.
Unassigned == [mode |-> "none"]

NoAssignments == [f \in FanIds |-> Unassigned]

DEFAULT_POLL_INTERVAL_MS == 2000

DefaultDaemonConfig ==
    [poll_interval_ms |-> DEFAULT_POLL_INTERVAL_MS, restore_on_exit |-> TRUE]

DefaultConfig ==
    [daemon |-> DefaultDaemonConfig,
     curves |-> <<DefaultSilentCurve, DefaultPerformanceCurve>>,
     fans   |-> NoAssignments]

\* What the configuration file holds: nothing (no file), text that does not
\* read or parse, or a configuration.
FileAbsent == [state |-> "absent"]

FileCorrupt == [state |-> "corrupt"]

FileOf(cfg) == [state |-> "config", config |-> cfg]

\* A plausible slip: a file that does not parse gives the default, as the
\* start of the daemon does with unwrap_or_else.
LoadConfigOrDefault(file) ==
    IF file.state = "config" THEN [ok |-> TRUE, config |-> file.config]
    ELSE [ok |-> TRUE, config |-> DefaultConfig]

\* load_config: the default when the file does not exist, an error when it
\* does not read or parse, the parsed configuration otherwise (the curves
\* are deserialized as written, not rebuilt through FanCurve::new).
LoadConfig(file) ==
    IF file.state = "absent" THEN [ok |-> TRUE, config |-> DefaultConfig]
    ELSE IF file.state = "corrupt" THEN [ok |-> FALSE, config |-> DefaultConfig]
    ELSE [ok |-> TRUE, config |-> file.config]

\* save_config: the file holds the configuration, or the write fails and
\* the file is as it was.
SaveConfig(file, cfg, writable) ==
    IF writable THEN [ok |-> TRUE, file |-> FileOf(cfg)]
    ELSE [ok |-> FALSE, file |-> file]

(***************************************************************************)
(* hwmon.rs                                                                *)
(***************************************************************************)

HwFanSet == Range(HwFans)

\* The pwmN_enable and pwmN files of every channel, as the firmware leaves
\* them: automatic control, some duty.
InitialHw == [enable |-> [f \in HwFanSet |-> 2], pwm |-> [f \in HwFanSet |-> 90]]

\* The files whose writes fail during one pass over the hardware: none, or
\* one file of one fan (the passes treat each fan on its own, and write a
\* fan's pwm only after its pwm_enable write succeeded).
Faults == {{}} \cup {{x} : x \in HwFanSet \X {"pwm_enable", "pwm"}}

\* The hardware files together with the writes issued to them, in order.
Io(h) == [enable |-> h.enable, pwm |-> h.pwm, log |-> <<>>]

HwOf(io) == [enable |-> io.enable, pwm |-> io.pwm]

\* fs::write of a value to one file of a fan: fails, leaving the file as it
\* was, or stores the value.
WriteFile(io, fault, fan, file, value) ==
    LET ok == <<fan, file>> \notin fault
        entry == [fan |-> fan, file |-> file, value |-> value, ok |-> ok]
    IN  [ok |-> ok,
         io |-> [enable |-> IF ok /\ file = "pwm_enable"
                            THEN [io.enable EXCEPT ![fan] = value]
                            ELSE io.enable,
                 pwm    |-> IF ok /\ file = "pwm"
                            THEN [io.pwm EXCEPT ![fan] = value]
                            ELSE io.pwm,
                 log    |-> Append(io.log, entry)]]

SetPwmEnable(io, fault, fan, mode) == WriteFile(io, fault, fan, "pwm_enable", mode)

SetPwm(io, fault, fan, value) == WriteFile(io, fault, fan, "pwm", value)

\* set_pwm_enable(fan, 1)?; set_pwm(fan, value)
SetManualPwm(io, fault, fan, value) ==
    LET r == SetPwmEnable(io, fault, fan, 1)
    IN  IF r.ok THEN SetPwm(r.io, fault, fan, value) ELSE r

RestoreAutomatic(io, fault, fan) == SetPwmEnable(io, fault, fan, 2)

\* A plausible slip: the pass returns at the first fan that fails.
RECURSIVE RestoreAllUntilError(_, _, _)
RestoreAllUntilError(io, fault, fans) ==
    IF fans = <<>> THEN io
    ELSE LET r == RestoreAutomatic(io, fault, Head(fans))
         IN  IF r.ok THEN RestoreAllUntilError(r.io, fault, Tail(fans)) ELSE r.io

\* restore_all_automatic: every fan in turn, a failure logged and passed over.
RECURSIVE RestoreAllAutomatic(_, _, _)
RestoreAllAutomatic(io, fault, fans) ==
    IF fans = <<>> THEN io
    ELSE RestoreAllAutomatic(RestoreAutomatic(io, fault, Head(fans)).io,
                             fault, Tail(fans))

\* read_temp_map: the sensors that gave a reading, with it.
TempMaps(sensors) == UNION {[S -> Temps] : S \in SUBSET Range(sensors)}

(***************************************************************************)
(* daemon.rs: the curve engine and the reconciler                          *)
(***************************************************************************)

\* The fan ids the assignment table holds an entry for.
Assigned(config) == {f \in FanIds : config.fans[f] # Unassigned}

\* A plausible variant: a fan whose curve or reading is missing is driven
\* at full speed to be safe.
CurveEngineFanFailsafe(io, fault, temp_map, fans, config, fan_id) ==
    LET a == config.fans[fan_id]
    IN  IF a.mode # "curve" THEN io
        ELSE IF fan_id \notin Range(fans) THEN io
        ELSE IF \/ ~HasCurve(config.curves, a.curve_name)
                \/ a.temp_sensor_id \notin DOMAIN temp_map
             THEN SetPwm(io, fault, fan_id, 255).io
             ELSE SetPwm(io, fault, fan_id,
                         Interpolate(FindCurve(config.curves, a.curve_name),
                                     temp_map[a.temp_sensor_id])).io

\* A plausible variant: the tick enables manual mode before each duty
\* write, as the reconciler does.
CurveEngineFanEnabling(io, fault, temp_map, fans, config, fan_id) ==
    LET a == config.fans[fan_id]
    IN  IF a.mode # "curve" THEN io
        ELSE IF ~HasCurve(config.curves, a.curve_name) THEN io
        ELSE IF a.temp_sensor_id \notin DOMAIN temp_map THEN io
        ELSE IF fan_id \notin Range(fans) THEN io
        ELSE SetManualPwm(io, fault, fan_id,
                          Interpolate(FindCurve(config.curves, a.curve_name),
                                      temp_map[a.temp_sensor_id])).io

\* One entry of the table in run_curve_engine.
CurveEngineFan(io, fault, temp_map, fans, config, fan_id) ==
    LET a == config.fans[fan_id]
    IN  IF a.mode # "curve" THEN io
        ELSE IF ~HasCurve(config.curves, a.curve_name) THEN io
        ELSE IF a.temp_sensor_id \notin DOMAIN temp_map THEN io
        ELSE LET pwm == Interpolate(FindCurve(config.curves, a.curve_name),
                                    temp_map[a.temp_sensor_id])
             IN  IF fan_id \in Range(fans)
                 THEN SetPwm(io, fault, fan_id, pwm).io
                 ELSE io

RECURSIVE CurveEngineOver(_, _, _, _, _, _)
CurveEngineOver(io, fault, temp_map, fans, config, ids) ==
    IF ids = {} THEN io
    ELSE LET f == CHOOSE x \in ids : TRUE
         IN  CurveEngineOver(CurveEngineFan(io, fault, temp_map, fans, config, f),
                             fault, temp_map, fans, config, ids \ {f})

RunCurveEngine(io, fault, temp_map, fans, config) ==
    CurveEngineOver(io, fault, temp_map, fans, config, Assigned(config))

\* A plausible slip: the duty of a curve fan is written before manual mode
\* is enabled.
ApplyFanDutyFirst(io, fault, temp_map, fans, config, fan_id) ==
    LET a == config.fans[fan_id]
    IN  IF fan_id \notin Range(fans) THEN io
        ELSE IF a.mode = "auto" THEN RestoreAutomatic(io, fault, fan_id).io
        ELSE IF a.mode = "manual" THEN SetManualPwm(io, fault, fan_id, a.pwm).io
        ELSE LET d == IF /\ HasCurve(config.curves, a.curve_name)
                         /\ a.temp_sensor_id \in DOMAIN temp_map
                      THEN SetPwm(io, fault, fan_id,
                                  Interpolate(FindCurve(config.curves, a.curve_name),
                                              temp_map[a.temp_sensor_id])).io
                      ELSE io
             IN  SetPwmEnable(d, fault, fan_id, 1).io

\* A plausible variant: the immediate duty of a curve fan is approached by
\* halves from the duty the fan has, so a second pass moves it again.
ApplyFanRamped(io, fault, temp_map, fans, config, fan_id) ==
    LET a == config.fans[fan_id]
    IN  IF fan_id \notin Range(fans) THEN io
        ELSE IF a.mode = "auto" THEN RestoreAutomatic(io, fault, fan_id).io
        ELSE IF a.mode = "manual" THEN SetManualPwm(io, fault, fan_id, a.pwm).io
        ELSE LET r == SetPwmEnable(io, fault, fan_id, 1)
             IN  IF ~r.ok THEN r.io
                 ELSE IF /\ HasCurve(config.curves, a.curve_name)
                         /\ a.temp_sensor_id \in DOMAIN temp_map
                      THEN SetPwm(r.io, fault, fan_id,
                                  (io.pwm[fan_id]
                                   + Interpolate(FindCurve(config.curves, a.curve_name),
                                                 temp_map[a.temp_sensor_id])) \div 2).io
                      ELSE r.io

\* One entry of the table in apply_assignments.
ApplyFan(io, fault, temp_map, fans, config, fan_id) ==
    LET a == config.fans[fan_id]
    IN  IF fan_id \notin Range(fans) THEN io
        ELSE IF a.mode = "auto" THEN RestoreAutomatic(io, fault, fan_id).io
        ELSE IF a.mode = "manual" THEN SetManualPwm(io, fault, fan_id, a.pwm).io
        ELSE LET r == SetPwmEnable(io, fault, fan_id, 1)
             IN  IF ~r.ok THEN r.io
                 ELSE IF /\ HasCurve(config.curves, a.curve_name)
                         /\ a.temp_sensor_id \in DOMAIN temp_map
                      THEN SetPwm(r.io, fault, fan_id,
                                  Interpolate(FindCurve(config.curves, a.curve_name),
                                              temp_map[a.temp_sensor_id])).io
                      ELSE r.io

\* A plausible slip: the error of a failed write is returned with ?, which
\* ends the pass at the first fan whose write fails.
RECURSIVE ApplyOverUntilError(_, _, _, _, _, _)
ApplyOverUntilError(io, fault, temp_map, fans, config, ids) ==
    IF ids = {} THEN io
    ELSE LET f == CHOOSE x \in ids : TRUE
             done == ApplyFan(io, fault, temp_map, fans, config, f)
         IN  IF done.log # <<>> /\ ~done.log[Len(done.log)].ok THEN done
             ELSE ApplyOverUntilError(done, fault, temp_map, fans, config,
                                      ids \ {f})

RECURSIVE ApplyOver(_, _, _, _, _, _)
ApplyOver(io, fault, temp_map, fans, config, ids) ==
    IF ids = {} THEN io
    ELSE LET f == CHOOSE x \in ids : TRUE
         IN  ApplyOver(ApplyFan(io, fault, temp_map, fans, config, f),
                       fault, temp_map, fans, config, ids \ {f})

ApplyAssignments(io, fault, temp_map, fans, config) ==
    ApplyOver(io, fault, temp_map, fans, config, Assigned(config))

(***************************************************************************)
(* protocol.rs                                                             *)
(***************************************************************************)

\* The duties and names the clients use in their requests.
Duties == {0, 200}

CurveNames == {"silent", "turbo"}

PointLists ==
    { << CurvePoint(80, 255), CurvePoint(40, 100) >>,
      << CurvePoint(40, 100), CurvePoint(40, 255) >>,
      << CurvePoint(40, 100) >> }

\* The lines a client may send: one JSON object each, tagged by "type".
Lines ==
    {[type |-> t] : t \in {"get_status", "list_curves", "save_config",
                           "reload_config", "subscribe", "unsubscribe",
                           "shutdown"}}
    \cup {[type |-> "set_manual", fan_id |-> f, pwm |-> p] :
             f \in FanIds, p \in Duties}
    \cup {[type |-> "set_manual", fan_id |-> HwFans[1], pwm |-> 256]}
    \cup {[type |-> "set_curve", fan_id |-> f, curve_name |-> n,
           temp_sensor_id |-> s] :
             f \in FanIds, n \in CurveNames, s \in SensorIds}
    \cup {[type |-> "set_auto", fan_id |-> f] : f \in FanIds}
    \cup {[type |-> "upsert_curve", name |-> n, points |-> ps] :
             n \in CurveNames, ps \in PointLists}
    \cup {[type |-> "delete_curve", name |-> n] : n \in CurveNames}

\* decode::<Request>: the variant the tag names, with its fields; an error
\* for a tag that names none and for a pwm that is no u8.
Decode(line) ==
    CASE line.type = "get_status"    -> [ok |-> TRUE, req |-> [kind |-> "GetStatus"]]
      [] line.type = "set_manual"    ->
            IF line.pwm \in 0..255
            THEN [ok |-> TRUE, req |-> [kind |-> "SetManual", fan_id |-> line.fan_id,
                                        pwm |-> line.pwm]]
            ELSE [ok |-> FALSE, req |-> [kind |-> "none"]]
      [] line.type = "set_curve"     ->
            [ok |-> TRUE, req |-> [kind |-> "SetCurve", fan_id |-> line.fan_id,
                                   curve_name |-> line.curve_name,
                                   temp_sensor_id |-> line.temp_sensor_id]]
      [] line.type = "set_auto"      ->
            [ok |-> TRUE, req |-> [kind |-> "SetAuto", fan_id |-> line.fan_id]]
      [] line.type = "list_curves"   -> [ok |-> TRUE, req |-> [kind |-> "ListCurves"]]
      [] line.type = "upsert_curve"  ->
            [ok |-> TRUE, req |-> [kind |-> "UpsertCurve", name |-> line.name,
                                   points |-> line.points]]
      [] line.type = "delete_curve"  ->
            [ok |-> TRUE, req |-> [kind |-> "DeleteCurve", name |-> line.name]]
      [] line.type = "save_config"   -> [ok |-> TRUE, req |-> [kind |-> "SaveConfig"]]
      [] line.type = "reload_config" -> [ok |-> TRUE, req |-> [kind |-> "ReloadConfig"]]
      [] line.type = "subscribe"     -> [ok |-> TRUE, req |-> [kind |-> "Subscribe"]]
      [] line.type = "unsubscribe"   -> [ok |-> TRUE, req |-> [kind |-> "Unsubscribe"]]
      [] OTHER                       -> [ok |-> FALSE, req |-> [kind |-> "none"]]

OkResponse(message) == [kind |-> "Ok", message |-> message]

ErrorResponse(message) == [kind |-> "Error", message |-> message]

\* A plausible slip: an encoder that cannot write an error response.
EncodeNoErrors(resp) ==
    IF resp.kind = "Error" THEN [ok |-> FALSE, line |-> [type |-> "none"]]
    ELSE [ok |-> TRUE,
          line |-> [type |-> CASE resp.kind = "Status" -> "status"
                               [] resp.kind = "Curves" -> "curves"
                               [] resp.kind = "Ok"     -> "ok",
                    body |-> resp,
                    newline |-> TRUE]]

\* encode: the response's JSON object, tagged by "type", and a newline.
\* serde_json writes every value a Response holds, so it returns Ok.
Encode(resp) ==
    [ok |-> TRUE,
     line |-> [type |-> CASE resp.kind = "Status" -> "status"
                          [] resp.kind = "Curves" -> "curves"
                          [] resp.kind = "Ok"     -> "ok"
                          [] resp.kind = "Error"  -> "error",
               body |-> resp,
               newline |-> TRUE]]

(***************************************************************************)
(* daemon.rs: process_request, with the state lock held                    *)
(***************************************************************************)

\* What a request leaves behind: its response, the configuration, the
\* configuration file and the hardware.
Reply(resp, config, file, io) ==
    [resp |-> resp, config |-> config, file |-> file, io |-> io]

Refuse(message, st) == Reply(ErrorResponse(message), st.config, st.file, st.io)

\* A plausible slip: only the discovered fans' assignments are reported.
HandleGetStatusDiscovered(req, st, env) ==
    Reply([kind |-> "Status",
           fans |-> [f \in Range(st.fans) |->
                        [pwm |-> st.io.pwm[f], pwm_enable |-> st.io.enable[f]]],
           temps |-> env.temp_map,
           assignments |-> [f \in Assigned(st.config) \cap Range(st.fans) |->
                               st.config.fans[f]]],
          st.config, st.file, st.io)

HandleGetStatus(req, st, env) ==
    Reply([kind |-> "Status",
           fans |-> [f \in Range(st.fans) |->
                        [pwm |-> st.io.pwm[f], pwm_enable |-> st.io.enable[f]]],
           temps |-> env.temp_map,
           assignments |-> [f \in Assigned(st.config) |-> st.config.fans[f]]],
          st.config, st.file, st.io)

\* A plausible slip: the table is rebuilt with the one entry instead of
\* having the entry inserted.
HandleSetManualAlone(req, st, env) ==
    IF req.fan_id \in Range(st.fans)
    THEN LET r == SetManualPwm(st.io, env.fault, req.fan_id, req.pwm)
         IN  IF r.ok
             THEN Reply(OkResponse("Set to manual PWM"),
                        [st.config EXCEPT !.fans =
                            [NoAssignments EXCEPT ![req.fan_id] = Manual(req.pwm)]],
                        st.file, r.io)
             ELSE Reply(ErrorResponse("Failed to set PWM"), st.config, st.file, r.io)
    ELSE Refuse("Unknown fan", st)

\* A plausible slip: the entry is inserted before the hardware is written.
HandleSetManualEager(req, st, env) ==
    IF req.fan_id \in Range(st.fans)
    THEN LET r == SetManualPwm(st.io, env.fault, req.fan_id, req.pwm)
             cfg == [st.config EXCEPT !.fans[req.fan_id] = Manual(req.pwm)]
         IN  IF r.ok
             THEN Reply(OkResponse("Set to manual PWM"), cfg, st.file, r.io)
             ELSE Reply(ErrorResponse("Failed to set PWM"), cfg, st.file, r.io)
    ELSE Refuse("Unknown fan", st)

HandleSetManual(req, st, env) ==
    IF req.fan_id \in Range(st.fans)
    THEN LET r == SetManualPwm(st.io, env.fault, req.fan_id, req.pwm)
         IN  IF r.ok
             THEN Reply(OkResponse("Set to manual PWM"),
                        [st.config EXCEPT !.fans[req.fan_id] = Manual(req.pwm)],
                        st.file, r.io)
             ELSE Reply(ErrorResponse("Failed to set PWM"), st.config, st.file, r.io)
    ELSE Refuse("Unknown fan", st)

\* A plausible slip: the result of set_pwm_enable is dropped.
HandleSetCurveUnchecked(req, st, env) ==
    IF ~HasCurve(st.config.curves, req.curve_name) THEN Refuse("Unknown curve", st)
    ELSE IF req.temp_sensor_id \notin Range(st.sensors)
         THEN Refuse("Unknown temp sensor", st)
    ELSE IF req.fan_id \notin Range(st.fans) THEN Refuse("Unknown fan", st)
    ELSE LET r == SetPwmEnable(st.io, env.fault, req.fan_id, 1)
         IN  Reply(OkResponse("Assigned curve"),
                   [st.config EXCEPT !.fans[req.fan_id] =
                       Curve(req.curve_name, req.temp_sensor_id)],
                   st.file, r.io)

\* A plausible slip: a known fan is put in manual mode before the curve
\* and the sensor are looked up.
HandleSetCurveWriteFirst(req, st, env) ==
    LET r == IF req.fan_id \in Range(st.fans)
             THEN SetPwmEnable(st.io, env.fault, req.fan_id, 1)
             ELSE [ok |-> TRUE, io |-> st.io]
    IN  IF ~HasCurve(st.config.curves, req.curve_name)
        THEN Reply(ErrorResponse("Unknown curve"), st.config, st.file, r.io)
        ELSE IF req.temp_sensor_id \notin Range(st.sensors)
        THEN Reply(ErrorResponse("Unknown temp sensor"), st.config, st.file, r.io)
        ELSE IF req.fan_id \notin Range(st.fans) THEN Refuse("Unknown fan", st)
        ELSE IF ~r.ok
             THEN Reply(ErrorResponse("Failed to enable manual mode"),
                        st.config, st.file, r.io)
             ELSE Reply(OkResponse("Assigned curve"),
                        [st.config EXCEPT !.fans[req.fan_id] =
                            Curve(req.curve_name, req.temp_sensor_id)],
                        st.file, r.io)

\* A plausible slip: the fan is looked up before the curve and the sensor.
HandleSetCurveFanFirst(req, st, env) ==
    IF req.fan_id \notin Range(st.fans) THEN Refuse("Unknown fan", st)
    ELSE IF ~HasCurve(st.config.curves, req.curve_name)
         THEN Refuse("Unknown curve", st)
    ELSE IF req.temp_sensor_id \notin Range(st.sensors)
         THEN Refuse("Unknown temp sensor", st)
    ELSE LET r == SetPwmEnable(st.io, env.fault, req.fan_id, 1)
         IN  IF ~r.ok
             THEN Reply(ErrorResponse("Failed to enable manual mode"),
                        st.config, st.file, r.io)
             ELSE Reply(OkResponse("Assigned curve"),
                        [st.config EXCEPT !.fans[req.fan_id] =
                            Curve(req.curve_name, req.temp_sensor_id)],
                        st.file, r.io)

HandleSetCurve(req, st, env) ==
    IF ~HasCurve(st.config.curves, req.curve_name) THEN Refuse("Unknown curve", st)
    ELSE IF req.temp_sensor_id \notin Range(st.sensors)
         THEN Refuse("Unknown temp sensor", st)
    ELSE IF req.fan_id \notin Range(st.fans) THEN Refuse("Unknown fan", st)
    ELSE LET r == SetPwmEnable(st.io, env.fault, req.fan_id, 1)
         IN  IF ~r.ok
             THEN Reply(ErrorResponse("Failed to enable manual mode"),
                        st.config, st.file, r.io)
             ELSE Reply(OkResponse("Assigned curve"),
                        [st.config EXCEPT !.fans[req.fan_id] =
                            Curve(req.curve_name, req.temp_sensor_id)],
                        st.file, r.io)

\* A plausible slip: entry(fan_id).or_insert(Auto), which keeps an entry the
\* fan already has.
HandleSetAutoKeep(req, st, env) ==
    IF req.fan_id \in Range(st.fans)
    THEN LET r == RestoreAutomatic(st.io, env.fault, req.fan_id)
         IN  IF r.ok
             THEN Reply(OkResponse("Restored to automatic control"),
                        IF st.config.fans[req.fan_id] = Unassigned
                        THEN [st.config EXCEPT !.fans[req.fan_id] = Auto]
                        ELSE st.config,
                        st.file, r.io)
             ELSE Reply(ErrorResponse("Failed to restore auto"),
                        st.config, st.file, r.io)
    ELSE Refuse("Unknown fan", st)

HandleSetAuto(req, st, env) ==
    IF req.fan_id \in Range(st.fans)
    THEN LET r == RestoreAutomatic(st.io, env.fault, req.fan_id)
         IN  IF r.ok
             THEN Reply(OkResponse("Restored to automatic control"),
                        [st.config EXCEPT !.fans[req.fan_id] = Auto],
                        st.file, r.io)
             ELSE Reply(ErrorResponse("Failed to restore auto"),
                        st.config, st.file, r.io)
    ELSE Refuse("Unknown fan", st)

HandleListCurves(req, st, env) ==
    Reply([kind |-> "Curves", curves |-> st.config.curves],
          st.config, st.file, st.io)

\* iter_mut().find(..) replaces the first curve of that name; else push.
UpsertInto(curves, curve) ==
    IF HasCurve(curves, curve.name)
    THEN LET i == CHOOSE k \in 1..Len(curves) :
                     /\ curves[k].name = curve.name
                     /\ \A j \in 1..(k - 1) : curves[j].name # curve.name
         IN  [curves EXCEPT ![i] = curve]
    ELSE Append(curves, curve)

HandleUpsertCurve(req, st, env) ==
    LET curve == FanCurveNew(req.name, req.points)
    IN  IF Validate(curve) # ValidateOk THEN Refuse(Validate(curve), st)
        ELSE Reply(OkResponse("Curve saved"),
                   [st.config EXCEPT !.curves = UpsertInto(@, curve)],
                   st.file, st.io)

\* Vec::retain(|c| c.name != name)
RECURSIVE Retain(_, _)
Retain(curves, name) ==
    IF curves = <<>> THEN <<>>
    ELSE IF Head(curves).name # name
         THEN <<Head(curves)>> \o Retain(Tail(curves), name)
         ELSE Retain(Tail(curves), name)

\* A plausible slip: deleting a curve that is not there is no error.
HandleDeleteCurveQuiet(req, st, env) ==
    Reply(OkResponse("Deleted curve"),
          [st.config EXCEPT !.curves = Retain(st.config.curves, req.name)],
          st.file, st.io)

HandleDeleteCurve(req, st, env) ==
    LET kept == Retain(st.config.curves, req.name)
    IN  IF Len(kept) < Len(st.config.curves)
        THEN Reply(OkResponse("Deleted curve"),
                   [st.config EXCEPT !.curves = kept], st.file, st.io)
        ELSE Reply(ErrorResponse("Curve not found"),
                   [st.config EXCEPT !.curves = kept], st.file, st.io)

\* A plausible variant: what is saved is also applied to the hardware.
HandleSaveConfigApplying(req, st, env) ==
    LET r == SaveConfig(st.file, st.config, env.writable)
        io == ApplyAssignments(st.io, env.fault, env.temp_map, st.fans, st.config)
    IN  IF r.ok THEN Reply(OkResponse("Config saved"), st.config, r.file, io)
        ELSE Reply(ErrorResponse("Failed to save config"), st.config, r.file, st.io)

HandleSaveConfig(req, st, env) ==
    LET r == SaveConfig(st.file, st.config, env.writable)
    IN  IF r.ok THEN Reply(OkResponse("Config saved"), st.config, r.file, st.io)
        ELSE Reply(ErrorResponse("Failed to save config"), st.config, r.file, st.io)

\* A plausible slip: the reconciler is given the configuration held so far.
HandleReloadStale(req, st, env) ==
    LET r == LoadConfig(st.file)
    IN  IF r.ok
        THEN Reply(OkResponse("Config reloaded"), r.config, st.file,
                   ApplyAssignments(st.io, env.fault, env.temp_map, st.fans, st.config))
        ELSE Refuse("Failed to reload config", st)

HandleReloadConfig(req, st, env) ==
    LET r == LoadConfig(st.file)
    IN  IF r.ok
        THEN Reply(OkResponse("Config reloaded"), r.config, st.file,
                   ApplyAssignments(st.io, env.fault, env.temp_map, st.fans, r.config))
        ELSE Refuse("Failed to reload config", st)

HandleSubscribe(req, st, env) ==
    Reply(OkResponse("Acknowledged"), st.config, st.file, st.io)

ProcessRequest(req, st, env) ==
    CASE req.kind = "GetStatus"    -> HandleGetStatus(req, st, env)
      [] req.kind = "SetManual"    -> HandleSetManual(req, st, env)
      [] req.kind = "SetCurve"     -> HandleSetCurve(req, st, env)
      [] req.kind = "SetAuto"      -> HandleSetAuto(req, st, env)
      [] req.kind = "ListCurves"   -> HandleListCurves(req, st, env)
      [] req.kind = "UpsertCurve"  -> HandleUpsertCurve(req, st, env)
      [] req.kind = "DeleteCurve"  -> HandleDeleteCurve(req, st, env)
      [] req.kind = "SaveConfig"   -> HandleSaveConfig(req, st, env)
      [] req.kind = "ReloadConfig" -> HandleReloadConfig(req, st, env)
      [] req.kind \in {"Subscribe", "Unsubscribe"} -> HandleSubscribe(req, st, env)

(***************************************************************************)
(* daemon.rs: main and the tasks it spawns                                 *)
(***************************************************************************)

\* A configuration an administrator may have written to the file.
EditedConfig ==
    [daemon |-> [poll_interval_ms |-> 500, restore_on_exit |-> FALSE],
     curves |-> <<DefaultSilentCurve>>,
     fans   |-> [NoAssignments EXCEPT ![HwFans[1]] = Curve("silent", HwSensors[1]),
                                      ![HwFans[2]] = Manual(200),
                                      ![NoSuchFan] = Auto]]

Files == {FileAbsent, FileCorrupt, FileOf(EditedConfig)}

NoRequest == [kind |-> "none"]

NoResponse == [kind |-> "none"]

VARIABLES
    \* DaemonState, behind the Mutex
    config, fans, sensors,
    \* the configuration file at config_path, and the hwmon files
    file, hw,
    \* main's locals: cfg.daemon.restore_on_exit and poll_interval_ms as
    \* captured before the state is built, and the socket file
    restore_on_exit, poll_interval, socketFile,
    \* the task holding the Mutex
    lockHolder,
    \* main: where it is, and the result of the accept it is handling
    mainPc, accepted,
    \* the signal handler task and the curve engine task
    sigPc, curvePc,
    \* the loops whose pending shutdown.notified() has been woken
    notified,
    \* handle_client, per connection: where it is, the request decoded from
    \* the line being served, the response to it, the hardware writes
    \* process_request issued for it, the number of lines read, and for each
    \* line written the number of the line it answers
    connPc, connReq, connResp, connLog, nread, out,
    \* the request lines read over all connections
    sent,
    \* the writes the shutdown pass of the signal handler issued
    restoreLog,
    \* a FanCurve value on its own, outside the daemon: the curve, the
    \* temperature interpolate was last called with, and what the last call
    \* of one of its methods returned
    the_curve, temp_c, returned,
    \* one pass over the assignment table on its own: the function called,
    \* the files whose writes failed, the readings, the hardware before
    \* it, the writes it issued in order, whether it is apply_assignments
    \* called again with the same readings and the same failing files, and
    \* how many passes have been followed
    pass, npass

\* The daemon's variables.
processVars == << config, fans, sensors, file, hw, restore_on_exit, poll_interval,
                  socketFile, lockHolder, mainPc, accepted, sigPc, curvePc,
                  notified, connPc, connReq, connResp, connLog, nread, out, sent,
                  restoreLog >>

\* The variables of the curve on its own.
curveVars == << the_curve, temp_c, returned >>

\* The variables of the pass on its own.
passVars == << pass, npass >>

vars == << processVars, curveVars, passVars >>

daemonVars == << config, fans, sensors >>

mainVars == << restore_on_exit, poll_interval, socketFile, mainPc, accepted >>

connVars == << connPc, connReq, connResp, connLog, nread, out, sent >>

\* Until main returns (or fails), the runtime polls the tasks.  Afterwards a
\* task suspended at an await is dropped there; one that is running goes on
\* to its next await.
Running == mainPc \in {"select", "accepted", "cleanup"}

\* No curve is under evaluation.
NoCall == [method |-> "none"]

CurveIdle ==
    /\ the_curve = [name |-> "", points |-> <<>>]
    /\ temp_c = 0
    /\ returned = NoCall

\* No pass has been followed.
NoPass == [method |-> "none"]

PassIdle ==
    /\ pass = NoPass
    /\ npass = 0

\* The daemon before main runs, the configuration file holding one of files.
ProcessInit(files) ==
    /\ config = DefaultConfig
    /\ fans = <<>>
    /\ sensors = <<>>
    /\ file \in files
    /\ hw = InitialHw
    /\ restore_on_exit = TRUE
    /\ poll_interval = DEFAULT_POLL_INTERVAL_MS
    /\ socketFile = FALSE
    /\ lockHolder = NoOne
    /\ mainPc = "boot"
    /\ accepted = "none"
    /\ sigPc = "unborn"
    /\ curvePc = "unborn"
    /\ notified = {}
    /\ connPc = [c \in Conns |-> "idle"]
    /\ connReq = [c \in Conns |-> NoRequest]
    /\ connResp = [c \in Conns |-> NoResponse]
    /\ connLog = [c \in Conns |-> <<>>]
    /\ nread = [c \in Conns |-> 0]
    /\ out = [c \in Conns |-> <<>>]
    /\ sent = 0
    /\ restoreLog = <<>>

Init == ProcessInit(Files) /\ CurveIdle /\ PassIdle

\* A plausible slip: load_config(&config_path)?, which returns the error
\* of a file that does not read or parse from main.
StartupStrict ==
    /\ mainPc = "boot"
    /\ IF ~LoadConfig(file).ok
       THEN /\ mainPc' = "load_failed"
            /\ UNCHANGED << daemonVars, hw, restore_on_exit, poll_interval >>
       ELSE /\ \E readable \in BOOLEAN, fault \in Faults :
                 LET found == IF readable THEN HwFans ELSE <<>>
                     sensed == IF readable THEN HwSensors ELSE <<>>
                     cfg == LoadConfig(file).config
                 IN  \E temp_map \in TempMaps(sensed) :
                       /\ hw' = HwOf(ApplyAssignments(Io(hw), fault, temp_map,
                                                      found, cfg))
                       /\ restore_on_exit' = cfg.daemon.restore_on_exit
                       /\ poll_interval' = cfg.daemon.poll_interval_ms
                       /\ config' = cfg
                       /\ fans' = found
                       /\ sensors' = sensed
            /\ mainPc' = "bind"
    /\ UNCHANGED << curveVars, passVars, file, socketFile, lockHolder, accepted,
                    sigPc, curvePc, notified, connVars, restoreLog >>

\* main, lines 56-94: load the configuration (the default on failure),
\* discover the hardware (nothing when /sys/class/hwmon cannot be read),
\* apply the assignments, keep restore_on_exit and poll_interval_ms, build
\* the state.
Startup ==
    /\ mainPc = "boot"
    /\ \E readable \in BOOLEAN, fault \in Faults :
         LET found == IF readable THEN HwFans ELSE <<>>
             sensed == IF readable THEN HwSensors ELSE <<>>
         IN
         \E temp_map \in TempMaps(sensed) :
           LET cfg == IF LoadConfig(file).ok THEN LoadConfig(file).config
                      ELSE DefaultConfig
           IN  /\ hw' = HwOf(ApplyAssignments(Io(hw), fault, temp_map, found, cfg))
               /\ restore_on_exit' = cfg.daemon.restore_on_exit
               /\ poll_interval' = cfg.daemon.poll_interval_ms
               /\ config' = cfg
               /\ fans' = found
               /\ sensors' = sensed
    /\ mainPc' = "bind"
    /\ UNCHANGED << curveVars, passVars, file, socketFile, lockHolder, accepted,
                    sigPc, curvePc, notified, connVars, restoreLog >>

\* main, lines 96-142: remove a stale socket file and bind the socket, then
\* make the socket file world-accessible; either error is returned from
\* main with ?, the second with the socket file in place.  Then spawn the
\* signal handler and the curve engine and enter the accept loop.
Bind ==
    /\ mainPc = "bind"
    /\ \E outcome \in {"bound", "bind_error", "permissions_error"} :
         CASE outcome = "bound" ->
                /\ socketFile' = TRUE
                /\ mainPc' = "select"
                /\ sigPc' = "wait"
                /\ curvePc' = "select"
           [] outcome = "bind_error" ->
                /\ socketFile' = FALSE
                /\ mainPc' = "bind_failed"
                /\ UNCHANGED << sigPc, curvePc >>
           [] outcome = "permissions_error" ->
                /\ socketFile' = TRUE
                /\ mainPc' = "permissions_failed"
                /\ UNCHANGED << sigPc, curvePc >>
    /\ UNCHANGED << curveVars, passVars, daemonVars, file, hw, restore_on_exit,
                    poll_interval, lockHolder, accepted, notified, connVars,
                    restoreLog >>

(***************************************************************************)
(* The signal handler task, lines 115-124                                  *)
(***************************************************************************)

\* ctrl_c() completes.
\* A plausible slip: the handler reads the flag from the shared state when
\* the signal arrives.
SignalFromState ==
    /\ Running
    /\ sigPc = "wait"
    /\ sigPc' = IF config.daemon.restore_on_exit THEN "lock" ELSE "notify"
    /\ UNCHANGED << curveVars, passVars, daemonVars, file, hw, mainVars, lockHolder, curvePc,
                    notified, connVars, restoreLog >>

Signal ==
    /\ Running
    /\ sigPc = "wait"
    /\ sigPc' = IF restore_on_exit THEN "lock" ELSE "notify"
    /\ UNCHANGED << curveVars, passVars, daemonVars, file, hw, mainVars, lockHolder, curvePc,
                    notified, connVars, restoreLog >>

SigLock ==
    /\ Running
    /\ sigPc = "lock"
    /\ lockHolder = NoOne
    /\ lockHolder' = "signal"
    /\ sigPc' = "restore"
    /\ UNCHANGED << curveVars, passVars, daemonVars, file, hw, mainVars, curvePc, notified,
                    connVars, restoreLog >>

\* A plausible slip: the guard is bound outside the if block and lives to
\* the end of the task.
SigRestoreHolding ==
    /\ sigPc = "restore"
    /\ \E fault \in Faults :
         LET io == RestoreAllAutomatic(Io(hw), fault, fans)
         IN  /\ hw' = HwOf(io)
             /\ restoreLog' = io.log
    /\ sigPc' = "notify"
    /\ UNCHANGED << curveVars, passVars, daemonVars, file, mainVars, lockHolder,
                    curvePc, notified, connVars >>

\* restore_all_automatic(&st.fans); the guard drops at the end of the block.
SigRestore ==
    /\ sigPc = "restore"
    /\ \E fault \in Faults :
         LET io == RestoreAllAutomatic(Io(hw), fault, fans)
         IN  /\ hw' = HwOf(io)
             /\ restoreLog' = io.log
    /\ lockHolder' = NoOne
    /\ sigPc' = "notify"
    /\ UNCHANGED << curveVars, passVars, daemonVars, file, mainVars, curvePc, notified, connVars >>

\* notify_waiters(): wakes the notified() futures that exist now, and
\* stores no permit for one created later.
Waiters == {t \in {"main", "curve"} :
               \/ t = "main" /\ mainPc = "select"
               \/ t = "curve" /\ curvePc = "select"}

SigNotify ==
    /\ sigPc = "notify"
    /\ notified' = Waiters
    /\ sigPc' = "done"
    /\ UNCHANGED << curveVars, passVars, daemonVars, file, hw, mainVars, lockHolder, curvePc,
                    connVars, restoreLog >>

(***************************************************************************)
(* The curve engine task, lines 129-142                                    *)
(***************************************************************************)

\* select! takes the interval.tick() branch; its notified() future is
\* dropped with the select.  With both branches ready select! takes either.
TickFire ==
    /\ Running
    /\ curvePc = "select"
    /\ curvePc' = "tick_lock"
    /\ notified' = notified \ {"curve"}
    /\ UNCHANGED << curveVars, passVars, daemonVars, file, hw, mainVars, lockHolder, sigPc,
                    connVars, restoreLog >>

TickLock ==
    /\ Running
    /\ curvePc = "tick_lock"
    /\ lockHolder = NoOne
    /\ lockHolder' = "curve"
    /\ curvePc' = "tick_run"
    /\ UNCHANGED << curveVars, passVars, daemonVars, file, hw, mainVars, sigPc, notified,
                    connVars, restoreLog >>

\* run_curve_engine(&st); the guard drops; the loop makes its next select!.
TickRun ==
    /\ curvePc = "tick_run"
    /\ \E fault \in Faults, temp_map \in TempMaps(sensors) :
         hw' = HwOf(RunCurveEngine(Io(hw), fault, temp_map, fans, config))
    /\ lockHolder' = NoOne
    /\ curvePc' = "select"
    /\ UNCHANGED << curveVars, passVars, daemonVars, file, mainVars, sigPc, notified, connVars,
                    restoreLog >>

\* select! takes the shutdown.notified() branch: break.
CurveShutdown ==
    /\ Running
    /\ curvePc = "select"
    /\ "curve" \in notified
    /\ curvePc' = "stopped"
    /\ notified' = notified \ {"curve"}
    /\ UNCHANGED << curveVars, passVars, daemonVars, file, hw, mainVars, lockHolder, sigPc,
                    connVars, restoreLog >>

(***************************************************************************)
(* The accept loop, lines 145-167                                          *)
(***************************************************************************)

\* Connections are named in the order they are accepted.
NextConn(conns) ==
    {c \in conns : connPc[c] = "idle" /\ (c = "c2" => connPc["c1"] # "idle")}

\* select! takes the listener.accept() branch, with a connection or an
\* error; its notified() future is dropped with the select.
Accept(conns) ==
    /\ mainPc = "select"
    /\ \E r \in NextConn(conns) \cup {"error"} : accepted' = r
    /\ mainPc' = "accepted"
    /\ notified' = notified \ {"main"}
    /\ UNCHANGED << curveVars, passVars, daemonVars, file, hw, restore_on_exit, poll_interval,
                    socketFile, lockHolder, sigPc, curvePc, connVars, restoreLog >>

\* Ok: tokio::spawn(handle_client(..)); Err: log.  Then the next select!.
AcceptBody ==
    /\ mainPc = "accepted"
    /\ connPc' = IF accepted \in Conns THEN [connPc EXCEPT ![accepted] = "read"]
                 ELSE connPc
    /\ accepted' = "none"
    /\ mainPc' = "select"
    /\ UNCHANGED << curveVars, passVars, daemonVars, file, hw, restore_on_exit, poll_interval,
                    socketFile, lockHolder, sigPc, curvePc, notified, connReq,
                    connResp, connLog, nread, out, sent, restoreLog >>

\* select! takes the shutdown.notified() branch: break.
MainShutdown ==
    /\ mainPc = "select"
    /\ "main" \in notified
    /\ mainPc' = "cleanup"
    /\ notified' = notified \ {"main"}
    /\ UNCHANGED << curveVars, passVars, daemonVars, file, hw, restore_on_exit, poll_interval,
                    socketFile, accepted, lockHolder, sigPc, curvePc, connVars,
                    restoreLog >>

\* remove_file(&socket_path); Ok(())
Cleanup ==
    /\ mainPc = "cleanup"
    /\ socketFile' = FALSE
    /\ mainPc' = "exited"
    /\ UNCHANGED << curveVars, passVars, daemonVars, file, hw, restore_on_exit, poll_interval,
                    accepted, lockHolder, sigPc, curvePc, notified, connVars,
                    restoreLog >>

(***************************************************************************)
(* handle_client, lines 174-198, and process_request, lines 200-374        *)
(***************************************************************************)

\* A plausible slip: a line that does not decode ends the connection.
ConnReadStrict(c, lines, budget) ==
    /\ Running
    /\ connPc[c] = "read"
    /\ sent < budget
    /\ \E line \in lines :
         LET d == Decode(line)
         IN  /\ connReq' = [connReq EXCEPT ![c] = d.req]
             /\ connResp' = connResp
             /\ connPc' = [connPc EXCEPT ![c] = IF d.ok THEN "lock" ELSE "closed"]
    /\ nread' = [nread EXCEPT ![c] = @ + 1]
    /\ sent' = sent + 1
    /\ UNCHANGED << curveVars, passVars, daemonVars, file, hw, mainVars, lockHolder, sigPc,
                    curvePc, notified, connLog, out, restoreLog >>

\* next_line() returns a line: decode it; an undecodable line is answered
\* without the state.
ConnRead(c, lines, budget) ==
    /\ Running
    /\ connPc[c] = "read"
    /\ sent < budget
    /\ \E line \in lines :
         LET d == Decode(line)
         IN  /\ connReq' = [connReq EXCEPT ![c] = d.req]
             /\ connResp' = [connResp EXCEPT ![c] =
                                IF d.ok THEN NoResponse
                                ELSE ErrorResponse("Invalid request")]
             /\ connPc' = [connPc EXCEPT ![c] = IF d.ok THEN "lock" ELSE "write"]
    /\ nread' = [nread EXCEPT ![c] = @ + 1]
    /\ sent' = sent + 1
    /\ UNCHANGED << curveVars, passVars, daemonVars, file, hw, mainVars, lockHolder, sigPc, curvePc,
                    notified, connLog, out, restoreLog >>

\* next_line() returns Ok(None) or Err: the loop ends.
ConnEof(c) ==
    /\ Running
    /\ connPc[c] = "read"
    /\ connPc' = [connPc EXCEPT ![c] = "closed"]
    /\ UNCHANGED << curveVars, passVars, daemonVars, file, hw, mainVars, lockHolder, sigPc, curvePc,
                    notified, connReq, connResp, connLog, nread, out, sent,
                    restoreLog >>

\* A plausible slip: the state is entered without waiting for the Mutex.
ConnLockNoWait(c) ==
    /\ Running
    /\ connPc[c] = "lock"
    /\ lockHolder' = c
    /\ connPc' = [connPc EXCEPT ![c] = "body"]
    /\ UNCHANGED << curveVars, passVars, daemonVars, file, hw, mainVars, sigPc, curvePc, notified,
                    connReq, connResp, connLog, nread, out, sent, restoreLog >>

\* state.lock().await
ConnLock(c) ==
    /\ Running
    /\ connPc[c] = "lock"
    /\ lockHolder = NoOne
    /\ lockHolder' = c
    /\ connPc' = [connPc EXCEPT ![c] = "body"]
    /\ UNCHANGED << curveVars, passVars, daemonVars, file, hw, mainVars, sigPc, curvePc, notified,
                    connReq, connResp, connLog, nread, out, sent, restoreLog >>

\* What the configuration file holds when a request is served: what it
\* held before or, rewritten by the administrator since, any of Files.  Only
\* ReloadConfig reads it.
FileNow(req) == IF req.kind = "ReloadConfig" THEN Files \cup {file} ELSE {file}

\* The match on the request, to the return that drops the guard.
ConnBody(c) ==
    /\ connPc[c] = "body"
    /\ \E fault \in Faults, temp_map \in TempMaps(sensors), writable \in BOOLEAN,
          content \in FileNow(connReq[c]) :
         LET st == [config |-> config, fans |-> fans, sensors |-> sensors,
                    file |-> content, io |-> Io(hw)]
             env == [fault |-> fault, temp_map |-> temp_map, writable |-> writable]
             r == ProcessRequest(connReq[c], st, env)
         IN  /\ config' = r.config
             /\ file' = r.file
             /\ hw' = HwOf(r.io)
             /\ connResp' = [connResp EXCEPT ![c] = r.resp]
             /\ connLog' = [connLog EXCEPT ![c] = r.io.log]
    /\ lockHolder' = NoOne
    /\ connPc' = [connPc EXCEPT ![c] = "write"]
    /\ UNCHANGED << curveVars, passVars, fans, sensors, mainVars, sigPc, curvePc, notified, connReq,
                    nread, out, sent, restoreLog >>

\* A plausible slip: a failed write is skipped like a failed encode, and
\* the loop reads the next line.
ConnWriteContinue(c) ==
    /\ Running
    /\ connPc[c] = "write"
    /\ LET e == Encode(connResp[c])
       IN  IF ~e.ok
           THEN out' = out
           ELSE \E written \in BOOLEAN :
                  out' = IF written THEN [out EXCEPT ![c] = Append(@, nread[c])]
                         ELSE out
    /\ connPc' = [connPc EXCEPT ![c] = "read"]
    /\ connReq' = [connReq EXCEPT ![c] = NoRequest]
    /\ connResp' = [connResp EXCEPT ![c] = NoResponse]
    /\ connLog' = [connLog EXCEPT ![c] = <<>>]
    /\ UNCHANGED << curveVars, passVars, daemonVars, file, hw, mainVars,
                    lockHolder, sigPc, curvePc, notified, nread, sent,
                    restoreLog >>

\* encode and write_all: an encode error skips the write, a write error
\* ends the loop.
ConnWrite(c) ==
    /\ Running
    /\ connPc[c] = "write"
    /\ LET e == Encode(connResp[c])
       IN  IF ~e.ok
           THEN /\ connPc' = [connPc EXCEPT ![c] = "read"]
                /\ out' = out
           ELSE \E written \in BOOLEAN :
                  IF written
                  THEN /\ out' = [out EXCEPT ![c] = Append(@, nread[c])]
                       /\ connPc' = [connPc EXCEPT ![c] = "read"]
                  ELSE /\ out' = out
                       /\ connPc' = [connPc EXCEPT ![c] = "closed"]
    /\ connReq' = [connReq EXCEPT ![c] = NoRequest]
    /\ connResp' = [connResp EXCEPT ![c] = NoResponse]
    /\ connLog' = [connLog EXCEPT ![c] = <<>>]
    /\ UNCHANGED << curveVars, passVars, daemonVars, file, hw, mainVars, lockHolder, sigPc, curvePc,
                    notified, nread, sent, restoreLog >>

\* The line sent while the daemon is followed from its start to its exit.
FewLines == {[type |-> "set_manual", fan_id |-> HwFans[1], pwm |-> 200]}

\* The lines of clients that set fans to manual duties at the same time.
ManualLines ==
    {l \in Lines : l.type = "set_manual" /\ l.fan_id \in HwFanSet /\ l.pwm \in Duties}

\* The daemon from its start to its exit, serving two connections.
Next ==
    \/ Startup
    \/ Bind
    \/ Signal
    \/ SigLock
    \/ SigRestore
    \/ SigNotify
    \/ TickFire
    \/ TickLock
    \/ TickRun
    \/ CurveShutdown
    \/ Accept(Conns)
    \/ AcceptBody
    \/ MainShutdown
    \/ Cleanup
    \/ \E c \in Conns : ConnRead(c, FewLines, MaxRequests)
    \/ \E c \in Conns : ConnEof(c)
    \/ \E c \in Conns : ConnLock(c)
    \/ \E c \in Conns : ConnBody(c)
    \/ \E c \in Conns : ConnWrite(c)

Spec == Init /\ [][Next]_vars

\* The daemon before any shutdown signal, serving every request a client
\* may send on one connection, the curve engine ticking.
NextDispatch ==
    \/ Startup
    \/ Bind
    \/ TickFire
    \/ TickLock
    \/ TickRun
    \/ Accept({"c1"})
    \/ AcceptBody
    \/ ConnRead("c1", Lines, MaxDispatched)
    \/ ConnEof("c1")
    \/ ConnLock("c1")
    \/ ConnBody("c1")
    \/ ConnWrite("c1")

Dispatch == Init /\ [][NextDispatch]_vars

\* The daemon before any shutdown signal, two clients setting fans to manual
\* duties, the curve engine ticking.
NextConcurrent ==
    \/ Startup
    \/ Bind
    \/ TickFire
    \/ TickLock
    \/ TickRun
    \/ Accept(Conns)
    \/ AcceptBody
    \/ \E c \in Conns : ConnRead(c, ManualLines, MaxConcurrent)
    \/ \E c \in Conns : ConnEof(c)
    \/ \E c \in Conns : ConnLock(c)
    \/ \E c \in Conns : ConnBody(c)
    \/ \E c \in Conns : ConnWrite(c)

Concurrent == Init /\ [][NextConcurrent]_vars

\* Lines the daemon refuses: a tag that names no request, a duty that is no
\* u8, a fan that does not exist; and one it refuses when the hardware
\* write fails.
RefusedLines ==
    { [type |-> "shutdown"],
      [type |-> "set_manual", fan_id |-> HwFans[1], pwm |-> 256],
      [type |-> "set_auto", fan_id |-> NoSuchFan],
      [type |-> "set_auto", fan_id |-> HwFans[1]] }

MaxRefused == 2

\* The daemon before any shutdown signal, two clients sending lines it
\* refuses, the curve engine ticking.
NextRefusals ==
    \/ Startup
    \/ Bind
    \/ TickFire
    \/ TickLock
    \/ TickRun
    \/ Accept(Conns)
    \/ AcceptBody
    \/ \E c \in Conns : ConnRead(c, RefusedLines, MaxRefused)
    \/ \E c \in Conns : ConnEof(c)
    \/ \E c \in Conns : ConnLock(c)
    \/ \E c \in Conns : ConnBody(c)
    \/ \E c \in Conns : ConnWrite(c)

Refusals == Init /\ [][NextRefusals]_vars

\* Configuration files written by hand: load_config takes what parses.  In
\* one, two curves have the same name; in the other, a curve has one point.
TwinConfig ==
    [DefaultConfig EXCEPT !.curves =
        << DefaultSilentCurve,
           [name |-> "silent",
            points |-> << CurvePoint(40, 100), CurvePoint(80, 255) >>] >>]

FlatConfig ==
    [DefaultConfig EXCEPT !.curves =
        << DefaultSilentCurve,
           [name |-> "turbo", points |-> << CurvePoint(40, 100) >>] >>]

WrittenByHand == {FileAbsent, FileOf(TwinConfig), FileOf(FlatConfig)}

\* The requests that read or change the curve set.
CurveLines ==
    {l \in Lines : l.type \in {"list_curves", "upsert_curve", "delete_curve",
                               "reload_config"}}

MaxCurveRequests == 3

\* The daemon started on a configuration file written by hand, one client
\* listing, saving and deleting curves and reloading the file.
NextCurveSet ==
    \/ Startup
    \/ Bind
    \/ Accept({"c1"})
    \/ AcceptBody
    \/ ConnRead("c1", CurveLines, MaxCurveRequests)
    \/ ConnEof("c1")
    \/ ConnLock("c1")
    \/ ConnBody("c1")
    \/ ConnWrite("c1")

InitCurveSet == ProcessInit(WrittenByHand) /\ CurveIdle /\ PassIdle

CurveSet == InitCurveSet /\ [][NextCurveSet]_vars

(***************************************************************************)
(* A FanCurve on its own: built by FanCurve::new or deserialized, then     *)
(* interpolated at a temperature.  Temperatures are whole degrees.         *)
(***************************************************************************)

\* The longest point list a curve is built from.
MaxPoints == 3

\* The points a curve is built from, and the temperatures it is asked for.
PointTemps == {20, 40, 70}

PointDuties == {0, 100, 255}

CallTemps == {15 + 5 * k : k \in 0..12}

PointSeqs ==
    UNION {[1..n -> {CurvePoint(t, p) : t \in PointTemps, p \in PointDuties}] :
              n \in 0..MaxPoints}

\* FanCurve::new(name, points)
New ==
    /\ returned = NoCall
    /\ the_curve.name = ""
    /\ \E points \in PointSeqs : the_curve' = FanCurveNew("curve", points)
    /\ UNCHANGED << processVars, passVars, temp_c, returned >>

\* A FanCurve read by serde from a file or a request: the points as written.
Deserialize ==
    /\ returned = NoCall
    /\ the_curve.name = ""
    /\ \E points \in PointSeqs : the_curve' = [name |-> "curve", points |-> points]
    /\ UNCHANGED << processVars, passVars, temp_c, returned >>

\* self.interpolate(temp_c)
CallInterpolate ==
    /\ the_curve.name # ""
    /\ \E t \in CallTemps :
         /\ temp_c' = t
         /\ returned' = [method |-> "interpolate", value |-> Interpolate(the_curve, t)]
    /\ UNCHANGED << processVars, passVars, the_curve >>

\* self.validate()
CallValidate ==
    /\ the_curve.name # ""
    /\ returned' = [method |-> "validate", value |-> Validate(the_curve)]
    /\ UNCHANGED << processVars, passVars, the_curve, temp_c >>

NextCurveCalls ==
    \/ New
    \/ Deserialize
    \/ CallInterpolate
    \/ CallValidate

InitCurveCalls == ProcessInit({FileAbsent}) /\ CurveIdle /\ PassIdle

CurveCalls == InitCurveCalls /\ [][NextCurveCalls]_vars

(***************************************************************************)
(* The two passes over the assignment table on their own: the daemon       *)
(* starts from a configuration file that assigns the fans, and then        *)
(* apply_assignments and run_curve_engine are called on its state, with    *)
(* the writes they issue kept.                                             *)
(***************************************************************************)

\* Both fans on curves that exist, read from the sensor that exists.
TwoCurves ==
    [daemon |-> DefaultDaemonConfig,
     curves |-> <<DefaultSilentCurve, DefaultPerformanceCurve>>,
     fans   |-> [NoAssignments EXCEPT
                    ![HwFans[1]] = Curve("silent", HwSensors[1]),
                    ![HwFans[2]] = Curve("performance", HwSensors[1])]]

\* A curve that is not in the list, a sensor that does not exist, and a fan
\* that does not exist.
Dangling ==
    [daemon |-> DefaultDaemonConfig,
     curves |-> <<DefaultSilentCurve>>,
     fans   |-> [NoAssignments EXCEPT
                    ![HwFans[1]] = Curve("gone", HwSensors[1]),
                    ![HwFans[2]] = Curve("silent", NoSuchSensor),
                    ![NoSuchFan] = Curve("silent", HwSensors[1])]]

\* One fan left to the firmware, the other on a curve.
AutoAndCurve ==
    [daemon |-> DefaultDaemonConfig,
     curves |-> <<DefaultSilentCurve>>,
     fans   |-> [NoAssignments EXCEPT
                    ![HwFans[1]] = Auto,
                    ![HwFans[2]] = Curve("silent", HwSensors[1])]]

\* One fan on a curve, the other without an entry.
OneCurve ==
    [daemon |-> DefaultDaemonConfig,
     curves |-> <<DefaultSilentCurve>>,
     fans   |-> [NoAssignments EXCEPT
                    ![HwFans[1]] = Curve("silent", HwSensors[1])]]

PassConfigs == {EditedConfig, TwoCurves, Dangling, AutoAndCurve, OneCurve}

PassFiles == {FileOf(cfg) : cfg \in PassConfigs}

\* How many passes are followed after startup.
MaxPasses == 3

\* apply_assignments(&fans, &sensors, &config)
CallApplyAssignments ==
    /\ mainPc = "bind"
    /\ npass < MaxPasses
    /\ \E fault \in Faults, temp_map \in TempMaps(sensors) :
         LET io == ApplyAssignments(Io(hw), fault, temp_map, fans, config)
         IN  /\ hw' = HwOf(io)
             /\ pass' = [method |-> "apply_assignments", fault |-> fault,
                         temp_map |-> temp_map, before |-> hw, log |-> io.log,
                         repeats |-> /\ pass.method = "apply_assignments"
                                     /\ pass.fault = fault
                                     /\ pass.temp_map = temp_map]
    /\ npass' = npass + 1
    /\ UNCHANGED << curveVars, daemonVars, file, mainVars, lockHolder, sigPc,
                    curvePc, notified, connVars, restoreLog >>

\* run_curve_engine(&st)
CallRunCurveEngine ==
    /\ mainPc = "bind"
    /\ npass < MaxPasses
    /\ \E fault \in Faults, temp_map \in TempMaps(sensors) :
         LET io == RunCurveEngine(Io(hw), fault, temp_map, fans, config)
         IN  /\ hw' = HwOf(io)
             /\ pass' = [method |-> "run_curve_engine", fault |-> fault,
                         temp_map |-> temp_map, before |-> hw, log |-> io.log,
                         repeats |-> FALSE]
    /\ npass' = npass + 1
    /\ UNCHANGED << curveVars, daemonVars, file, mainVars, lockHolder, sigPc,
                    curvePc, notified, connVars, restoreLog >>

NextPasses ==
    \/ Startup
    \/ CallApplyAssignments
    \/ CallRunCurveEngine

InitPasses == ProcessInit(PassFiles) /\ CurveIdle /\ PassIdle

Passes == InitPasses /\ [][NextPasses]_vars

(***************************************************************************)
(* Fair scheduling: the runtime polls every task that can run, the Mutex   *)
(* hands the lock to each waiter in turn, the timer fires.  Nothing is     *)
(* assumed of the clients, of the administrator or of the signal.          *)
(***************************************************************************)

Fairness ==
    /\ WF_vars(Startup)
    /\ WF_vars(Bind)
    /\ SF_vars(SigLock)
    /\ WF_vars(SigRestore)
    /\ WF_vars(SigNotify)
    /\ WF_vars(TickFire)
    /\ SF_vars(TickLock)
    /\ WF_vars(TickRun)
    /\ WF_vars(CurveShutdown)
    /\ WF_vars(AcceptBody)
    /\ WF_vars(MainShutdown)
    /\ WF_vars(Cleanup)
    /\ \A c \in Conns : SF_vars(ConnLock(c))
    /\ \A c \in Conns : WF_vars(ConnBody(c))
    /\ \A c \in Conns : WF_vars(ConnWrite(c))

FairSpec == Init /\ [][Next]_vars /\ Fairness

\* The same daemon, fairly scheduled, started without a configuration
\* file: what the tasks do with the lock does not depend on what the file
\* holds.
InitLock == ProcessInit({FileAbsent}) /\ CurveIdle /\ PassIdle

FairLock == InitLock /\ [][Next]_vars /\ Fairness

(***************************************************************************)
(* The claims                                                              *)
(***************************************************************************)

\* The tasks that hold a guard of the state: a request inside
\* process_request, a tick inside run_curve_engine, the restore pass of the
\* signal handler.
InState ==
    {c \in Conns : connPc[c] = "body"}
    \cup (IF curvePc = "tick_run" THEN {"curve"} ELSE {})
    \cup (IF sigPc = "restore" THEN {"signal"} ELSE {})

\* C1: in every reachable state at most one task is inside the shared
\* state, and it is the task the Mutex is held by: no two requests, no
\* request and tick, no request or tick and the restore pass overlap.
C1_MutualExclusion ==
    /\ Cardinality(InState) <= 1
    /\ \A t \in InState : lockHolder = t

\* A request is inside the state while the other request, a tick and the
\* restore pass all wait for the Mutex.
C1_Witness ==
    /\ connPc["c1"] = "body"
    /\ connPc["c2"] = "lock"
    /\ curvePc = "tick_lock"
    /\ sigPc = "lock"

\* A connection whose one request, a SetManual of a discovered fan, has
\* been served with every hardware write succeeding.
ServedManual(c) ==
    /\ connPc[c] = "write"
    /\ nread[c] = 1
    /\ connReq[c].kind = "SetManual"
    /\ connReq[c].fan_id \in Range(fans)
    /\ \A i \in 1..Len(connLog[c]) : connLog[c][i].ok

\* C2: when every connection has had one SetManual served, for distinct
\* discovered fans and with the hardware writes succeeding, every response
\* is Ok and the table holds Manual(duty) for each of the fans.
C2_NoLostUpdate ==
    ( /\ \A c \in Conns : ServedManual(c)
      /\ \A c, d \in Conns : c # d => connReq[c].fan_id # connReq[d].fan_id )
    => \A c \in Conns :
          /\ connResp[c].kind = "Ok"
          /\ config.fans[connReq[c].fan_id] = Manual(connReq[c].pwm)

\* Both connections have had a SetManual served, for the two fans and with
\* different duties, while the other was being served too.
C2_Witness ==
    /\ \A c \in Conns : ServedManual(c) /\ connResp[c].kind = "Ok"
    /\ connReq["c1"].fan_id # connReq["c2"].fan_id
    /\ connReq["c1"].pwm # connReq["c2"].pwm

\* The step in which process_request returns for connection c.
Returns(c) == connPc[c] = "body" /\ connPc'[c] = "write"

\* C3: whenever process_request returns an Error response, the
\* configuration in memory is what it was before the request.
C3_ErrorLeavesConfig ==
    [][\A c \in Conns :
          (Returns(c) /\ connResp'[c].kind = "Error") => config' = config]_vars

\* A SetManual has failed at the duty write, after the fan was switched to
\* manual mode.
C3_Witness ==
    \E c \in Conns :
       /\ connPc[c] = "write"
       /\ connResp[c] = ErrorResponse("Failed to set PWM")
       /\ Len(connLog[c]) = 2
       /\ hw.enable[connReq[c].fan_id] = 1

\* C4: SetCurve answers with the first check that fails, in the order
\* curve, sensor, fan.
C4_SetCurveOrder ==
    [][\A c \in Conns :
          (Returns(c) /\ connReq[c].kind = "SetCurve") =>
             LET req == connReq[c]
                 known_curve == HasCurve(config.curves, req.curve_name)
                 known_sensor == req.temp_sensor_id \in Range(sensors)
                 known_fan == req.fan_id \in Range(fans)
             IN  /\ ~known_curve => connResp'[c] = ErrorResponse("Unknown curve")
                 /\ (known_curve /\ ~known_sensor)
                       => connResp'[c] = ErrorResponse("Unknown temp sensor")
                 /\ (known_curve /\ known_sensor /\ ~known_fan)
                       => connResp'[c] = ErrorResponse("Unknown fan")]_vars

\* A SetCurve naming an unknown curve, an unknown sensor and an unknown fan
\* has been answered, with hardware discovered.
C4_Witness ==
    \E c \in Conns :
       /\ connPc[c] = "write"
       /\ connReq[c].kind = "SetCurve"
       /\ connReq[c].fan_id = NoSuchFan
       /\ connReq[c].temp_sensor_id = NoSuchSensor
       /\ ~HasCurve(config.curves, connReq[c].curve_name)
       /\ fans # <<>>
       /\ connResp[c] = ErrorResponse("Unknown curve")

\* C5: a ReloadConfig that finds a file that does not read or parse returns
\* an Error response, leaves the configuration as it was and issues no
\* hardware write.
C5_FailedReload ==
    [][\A c \in Conns :
          (Returns(c) /\ connReq[c].kind = "ReloadConfig" /\ file'.state = "corrupt")
          => /\ connResp'[c].kind = "Error"
             /\ config' = config
             /\ connLog'[c] = <<>>
             /\ hw' = hw]_vars

\* A reload has failed on a corrupt file while the configuration held is
\* not the default one.
C5_Witness ==
    \E c \in Conns :
       /\ connPc[c] = "write"
       /\ connReq[c].kind = "ReloadConfig"
       /\ file.state = "corrupt"
       /\ connResp[c].kind = "Error"
       /\ config # DefaultConfig

\* C6: a ReloadConfig that returns Ok has, with the Mutex held from before
\* the load to after the replacement, issued the reconciler's writes for
\* the configuration just loaded and made that configuration the one in
\* memory.
C6_ReloadAppliesLoaded ==
    [][\A c \in Conns :
          (Returns(c) /\ connReq[c].kind = "ReloadConfig" /\ connResp'[c].kind = "Ok")
          => /\ lockHolder = c
             /\ InState = {c}
             /\ LoadConfig(file').ok
             /\ config' = LoadConfig(file').config
             /\ \E fault \in Faults, temp_map \in TempMaps(sensors) :
                   LET io == ApplyAssignments(Io(hw), fault, temp_map, fans, config')
                   IN  connLog'[c] = io.log /\ hw' = HwOf(io)]_vars

\* A reload has replaced the default configuration the daemon started with
\* by the edited one and has written to the hardware for it.
C6_Witness ==
    \E c \in Conns :
       /\ connPc[c] = "write"
       /\ connReq[c].kind = "ReloadConfig"
       /\ connResp[c].kind = "Ok"
       /\ config = EditedConfig
       /\ restore_on_exit
       /\ Len(connLog[c]) >= 3

\* The fans the shutdown pass has written "automatic" to.
RestoreIssued ==
    {restoreLog[i].fan : i \in {k \in 1..Len(restoreLog) :
                                   /\ restoreLog[k].file = "pwm_enable"
                                   /\ restoreLog[k].value = 2}}

\* C7: with restore_on_exit set when the daemon started, once the shutdown
\* notification has been broadcast a restore-to-automatic write has been
\* issued to every discovered fan; and the socket file is removed, and
\* main returns, only after the broadcast.
C7_RestoreBeforeBroadcast ==
    /\ (sigPc = "done" /\ restore_on_exit) => RestoreIssued = Range(fans)
    /\ mainPc \in {"cleanup", "exited"} => sigPc = "done"

\* The daemon has exited after a restore pass in which the write to the
\* first fan failed and the write to the second was still issued.
C7_Witness ==
    /\ mainPc = "exited"
    /\ restore_on_exit
    /\ Len(restoreLog) = 2
    /\ ~restoreLog[1].ok
    /\ restoreLog[2].ok
    /\ hw.enable[HwFans[1]] = 1
    /\ hw.enable[HwFans[2]] = 2

\* C8: once the shutdown notification has been broadcast, the curve engine
\* loop takes the tick branch of its select! no more.
C8_NoTickAfterBroadcast ==
    [][sigPc = "done" => ~(curvePc = "select" /\ curvePc' = "tick_lock")]_vars

\* The curve engine loop has left its loop, or the runtime has dropped the
\* task at an await on main's return.
CurveLoopEnded ==
    \/ curvePc = "stopped"
    \/ mainPc = "exited" /\ curvePc \in {"select", "tick_lock"}

\* C9: after the shutdown signal, the accept loop and the curve engine loop
\* both end and the socket file is removed.
C9_ShutdownCompletes ==
    (sigPc \in {"lock", "restore", "notify", "done"})
       ~> (mainPc = "exited" /\ ~socketFile /\ CurveLoopEnded)

\* C10: the lines written on a connection answer the lines read, one each
\* and in order: line i written answers line i read, and a connection
\* waiting for its next line has answered every line it read.
C10_OneResponsePerRequest ==
    \A c \in Conns :
       /\ \A i \in 1..Len(out[c]) : out[c][i] = i
       /\ connPc[c] \in {"idle", "read"} => Len(out[c]) = nread[c]
       /\ connPc[c] \in {"lock", "body", "write"} => Len(out[c]) = nread[c] - 1
       /\ connPc[c] = "closed" => Len(out[c]) \in {nread[c] - 1, nread[c]}

\* Two lines have been read and answered on one connection.
C10_Witness ==
    \E c \in Conns : connPc[c] = "read" /\ nread[c] = 2 /\ out[c] = <<1, 2>>

\* What handle_client holds for connection d, and the two loops of main.
Others(c) ==
    << [d \in Conns \ {c} |->
           << connPc[d], connReq[d], connResp[d], connLog[d], nread[d], out[d] >>],
       curvePc, mainPc, accepted >>

\* C11: a line that does not decode is answered with an Error response
\* without the shared state being locked or touched; an Error response,
\* whatever refused the request, is written like any other and the
\* connection then reads its next line (it ends only if the write itself
\* fails); and none of these steps changes anything another connection, the
\* curve engine loop or the accept loop holds.
C11_ErrorKeepsConnection ==
    [][\A c \in Conns :
          /\ (connPc[c] = "read" /\ nread'[c] = nread[c] + 1 /\ connReq'[c] = NoRequest)
                => /\ connPc'[c] = "write"
                   /\ connResp'[c].kind = "Error"
                   /\ UNCHANGED << config, fans, sensors, file, hw, lockHolder >>
                   /\ Others(c)' = Others(c)
          /\ (Returns(c) /\ connResp'[c].kind = "Error")
                => /\ lockHolder' = NoOne
                   /\ Others(c)' = Others(c)
          /\ (connPc[c] = "write" /\ connResp[c].kind = "Error" /\ connPc'[c] # "write")
                => /\ \/ connPc'[c] = "read" /\ out'[c] = Append(out[c], nread[c])
                      \/ connPc'[c] = "closed" /\ out'[c] = out[c]
                   /\ Others(c)' = Others(c)]_vars

\* The second request of a connection is being dispatched after its first
\* was refused and answered (a first request that succeeded would have left
\* an assignment).
C11_Witness ==
    \E c \in Conns :
       /\ connPc[c] = "body"
       /\ nread[c] = 2
       /\ sent = 2
       /\ out[c] = <<1>>
       /\ fans # <<>>
       /\ config.fans = NoAssignments

\* C12: GetStatus never returns an Error response; the assignments it
\* returns are the entries of the assignment table as the state holds it
\* while the request has the lock, every entry and nothing else, and it
\* leaves the table as it is.
C12_StatusReportsTable ==
    [][\A c \in Conns :
          (Returns(c) /\ connReq[c].kind = "GetStatus")
          => /\ connResp'[c].kind = "Status"
             /\ connResp'[c].assignments = [f \in Assigned(config) |-> config.fans[f]]
             /\ config' = config]_vars

\* A GetStatus, the second request of its connection, has reported the
\* manual duty 0 for the first fan: an assignment only the SetManual before
\* it can have made.
C12_Witness ==
    \E c \in Conns :
       /\ connPc[c] = "write"
       /\ connReq[c].kind = "GetStatus"
       /\ nread[c] = 2
       /\ connResp[c].kind = "Status"
       /\ HwFans[1] \in DOMAIN connResp[c].assignments
       /\ connResp[c].assignments[HwFans[1]] = Manual(0)

\* The requests that assign a fan, and the assignment each asks for.
Assigns(req) == req.kind \in {"SetManual", "SetCurve", "SetAuto"}

AssignmentOf(req) ==
    CASE req.kind = "SetManual" -> Manual(req.pwm)
      [] req.kind = "SetCurve"  -> Curve(req.curve_name, req.temp_sensor_id)
      [] req.kind = "SetAuto"   -> Auto

\* C13: the assignment table maps each fan id to one assignment.  A
\* SetManual, SetCurve or SetAuto that returns Ok overwrites the entry of
\* its fan with its assignment and leaves every other entry; one that
\* returns an Error, and every other step but a reload and the load at
\* startup, leaves the table as it is.  So each entry is the assignment of
\* the latest such request for the fan that returned Ok.
C13_LatestWriteWins ==
    [][/\ \A c \in Conns :
             Returns(c) =>
                LET req == connReq[c]
                IN  IF Assigns(req) /\ connResp'[c].kind = "Ok"
                    THEN config'.fans =
                            [config.fans EXCEPT ![req.fan_id] = AssignmentOf(req)]
                    ELSE req.kind # "ReloadConfig" => config'.fans = config.fans
       /\ ((\A c \in Conns : ~Returns(c)) /\ mainPc # "boot")
             => config'.fans = config.fans
       /\ DOMAIN config'.fans = FanIds]_vars

\* A SetAuto has overwritten the entry of the first fan, which an earlier
\* SetManual had set to the duty 200 (the duty is still in the pwm file).
C13_Witness ==
    \E c \in Conns :
       /\ connPc[c] = "write"
       /\ connReq[c] = [kind |-> "SetAuto", fan_id |-> HwFans[1]]
       /\ connResp[c].kind = "Ok"
       /\ nread[c] = 2
       /\ hw.pwm[HwFans[1]] = 200
       /\ config.fans[HwFans[1]] = Auto

\* The hardware writes a request that assigns a fan calls for, in order.
WritesOf(req) ==
    CASE req.kind = "SetManual" -> << <<req.fan_id, "pwm_enable", 1>>,
                                      <<req.fan_id, "pwm", req.pwm>> >>
      [] req.kind = "SetCurve"  -> << <<req.fan_id, "pwm_enable", 1>> >>
      [] req.kind = "SetAuto"   -> << <<req.fan_id, "pwm_enable", 2>> >>

\* C14: a SetManual, SetCurve or SetAuto that passes its checks issues the
\* writes its kind calls for, in order, up to the first that fails.  When
\* all of them succeed it returns Ok and the table has the entry; when one
\* fails it returns an Error and the table is as before.
C14_TableFollowsHardware ==
    [][\A c \in Conns :
          LET req == connReq[c]
              log == connLog'[c]
              issued == [i \in 1..Len(log) |-> <<log[i].fan, log[i].file, log[i].value>>]
              failed == {i \in 1..Len(log) : ~log[i].ok}
          IN  ( /\ Returns(c)
                /\ Assigns(req)
                /\ req.fan_id \in Range(fans)
                /\ req.kind = "SetCurve" =>
                      /\ HasCurve(config.curves, req.curve_name)
                      /\ req.temp_sensor_id \in Range(sensors) )
              => /\ Len(log) \in 1..Len(WritesOf(req))
                 /\ issued = SubSeq(WritesOf(req), 1, Len(log))
                 /\ failed \subseteq {Len(log)}
                 /\ failed = {} => Len(log) = Len(WritesOf(req))
                 /\ IF failed = {}
                    THEN /\ connResp'[c].kind = "Ok"
                         /\ config' = [config EXCEPT
                                          !.fans[req.fan_id] = AssignmentOf(req)]
                    ELSE /\ connResp'[c].kind = "Error"
                         /\ config' = config]_vars

\* A SetCurve that passed its three checks has been refused because the
\* write to pwm_enable failed.
C14_Witness ==
    \E c \in Conns :
       /\ connPc[c] = "write"
       /\ connReq[c].kind = "SetCurve"
       /\ connResp[c] = ErrorResponse("Failed to enable manual mode")
       /\ Len(connLog[c]) = 1
       /\ ~connLog[c][1].ok
       /\ config.fans[connReq[c].fan_id] # AssignmentOf(connReq[c])

\* How many curves of a set have the name.
CountNamed(curves, name) ==
    Cardinality({i \in 1..Len(curves) : curves[i].name = name})

\* sorted holds the points of input, each as often, by ascending temperature.
SortedFrom(sorted, input) ==
    /\ Len(sorted) = Len(input)
    /\ \A p \in Range(sorted) \cup Range(input) :
          Cardinality({i \in 1..Len(sorted) : sorted[i] = p})
             = Cardinality({i \in 1..Len(input) : input[i] = p})
    /\ \A i, j \in 1..Len(sorted) : i < j => sorted[i].temp_c <= sorted[j].temp_c

\* C15: when UpsertCurve(name, points) returns Ok the curve set holds
\* exactly one curve of that name, and its points are the points given,
\* sorted by ascending temperature; ListCurves returns the curve set as it
\* is and leaves it so.
C15_UpsertListRoundTrip ==
    [][\A c \in Conns :
          /\ (Returns(c) /\ connReq[c].kind = "UpsertCurve" /\ connResp'[c].kind = "Ok")
                => /\ CountNamed(config'.curves, connReq[c].name) = 1
                   /\ \A i \in 1..Len(config'.curves) :
                         config'.curves[i].name = connReq[c].name
                            => SortedFrom(config'.curves[i].points, connReq[c].points)
          /\ (Returns(c) /\ connReq[c].kind = "ListCurves")
                => /\ connResp'[c].kind = "Curves"
                   /\ connResp'[c].curves = config.curves
                   /\ config' = config]_vars

UniqueNames(curves) ==
    \A i, j \in 1..Len(curves) : curves[i].name = curves[j].name => i = j

\* C16: no two curves of the configuration have the same name, whatever
\* step made the configuration; and an UpsertCurve that returns Ok replaces
\* the curve of that name where it stands, or, when there is none, appends
\* the new curve.
C16_UniqueCurveNames ==
    [][/\ UniqueNames(config'.curves)
       /\ \A c \in Conns :
             (Returns(c) /\ connReq[c].kind = "UpsertCurve" /\ connResp'[c].kind = "Ok")
             => LET name == connReq[c].name
                    old == config.curves
                    new == config'.curves
                IN  IF HasCurve(old, name)
                    THEN /\ Len(new) = Len(old)
                         /\ \A i \in 1..Len(old) :
                               old[i].name # name => new[i] = old[i]
                    ELSE /\ Len(new) = Len(old) + 1
                         /\ SubSeq(new, 1, Len(old)) = old
                         /\ new[Len(new)].name = name]_vars

\* C17: every curve of the configuration has at least two points, with
\* strictly increasing temperatures.
C17_CurvesWellFormed ==
    \A i \in 1..Len(config.curves) :
       LET points == config.curves[i].points
       IN  /\ Len(points) >= 2
           /\ \A k \in 1..(Len(points) - 1) : points[k].temp_c < points[k + 1].temp_c

NotNamed(curves, name) ==
    SelectSeq(curves, LAMBDA x : x.name # name)

\* C18: DeleteCurve(name) returns Ok when the curve set holds a curve of
\* that name, and then the set holds none of that name and every other
\* curve, in order; otherwise it returns the curve-not-found Error and the
\* set is as before.
C18_DeleteCurve ==
    [][\A c \in Conns :
          (Returns(c) /\ connReq[c].kind = "DeleteCurve")
          => LET name == connReq[c].name
             IN  /\ config'.curves = NotNamed(config.curves, name)
                 /\ [config' EXCEPT !.curves = config.curves] = config
                 /\ IF HasCurve(config.curves, name)
                    THEN /\ connResp'[c].kind = "Ok"
                         /\ Len(config'.curves) < Len(config.curves)
                    ELSE /\ connResp'[c] = ErrorResponse("Curve not found")
                         /\ config' = config]_vars

\* A DeleteCurve, the second request of its connection, has removed the
\* curve it named and left the other curve of the set.
C18_Witness ==
    \E c \in Conns :
       /\ connPc[c] = "write"
       /\ connReq[c] = [kind |-> "DeleteCurve", name |-> "silent"]
       /\ connResp[c].kind = "Ok"
       /\ config.curves = <<DefaultPerformanceCurve>>
       /\ nread[c] = 2

\* interpolate has returned for a curve that has points.
Interpolated ==
    returned.method = "interpolate" /\ the_curve.points # <<>>

FirstPoint == the_curve.points[1]

LastPoint == the_curve.points[Len(the_curve.points)]

\* C19, as stated: for every curve with points, a temperature at or below
\* the first point's gives the first point's duty and a temperature at or
\* above the last point's gives the last point's duty.
C19_BoundaryAsStated ==
    Interpolated =>
       /\ temp_c <= FirstPoint.temp_c => returned.value = FirstPoint.pwm
       /\ temp_c >= LastPoint.temp_c => returned.value = LastPoint.pwm

\* C19, amended: a temperature at or below the first point's gives the
\* first point's duty; a temperature above the first point's and at or
\* above the last point's gives the last point's duty.  For a curve with
\* strictly increasing temperatures this is the claim as stated.
C19_Boundary ==
    Interpolated =>
       /\ temp_c <= FirstPoint.temp_c => returned.value = FirstPoint.pwm
       /\ (temp_c > FirstPoint.temp_c /\ temp_c >= LastPoint.temp_c)
             => returned.value = LastPoint.pwm

\* interpolate has returned the first duty below a rising first segment.
C19_Witness ==
    /\ Interpolated
    /\ Len(the_curve.points) = 3
    /\ temp_c < FirstPoint.temp_c
    /\ FirstPoint.temp_c < the_curve.points[2].temp_c
    /\ FirstPoint.pwm = 100
    /\ the_curve.points[2].pwm = 255
    /\ returned.value = 100

\* The points have strictly increasing temperatures and duties that do not
\* decrease.
Rising(points) ==
    /\ Len(points) >= 2
    /\ \A k \in 1..(Len(points) - 1) :
          /\ points[k].temp_c < points[k + 1].temp_c
          /\ points[k].pwm <= points[k + 1].pwm

\* C20: for a curve of at least two points with strictly increasing
\* temperatures and non-decreasing duties, interpolate does not decrease
\* as the temperature rises; and for every curve what it returns is in
\* 0..255.
C20_Monotonic ==
    /\ Rising(the_curve.points) =>
          \A t1, t2 \in CallTemps :
             t1 <= t2 => Interpolate(the_curve, t1) <= Interpolate(the_curve, t2)
    /\ \A t \in CallTemps : Interpolate(the_curve, t) \in 0..255
    /\ returned.method = "interpolate" =>
          /\ returned.value = Interpolate(the_curve, temp_c)
          /\ returned.value \in 0..255

\* interpolate has returned a duty strictly between the duties of two
\* points of a rising curve of three points.
C20_Witness ==
    /\ returned.method = "interpolate"
    /\ Len(the_curve.points) = 3
    /\ Rising(the_curve.points)
    /\ temp_c = 45
    /\ returned.value = 126

\* The window (points[k], points[k + 1]) brackets the temperature t.
Brackets(points, k, t) ==
    points[k].temp_c <= t /\ t <= points[k + 1].temp_c

\* v is an integer nearest to the fraction num / den, den > 0.
Nearest(v, num, den) ==
    /\ 2 * (v * den - num) <= den
    /\ 2 * (num - v * den) <= den

StrictlyIncreasing(points) ==
    \A k \in 1..(Len(points) - 1) : points[k].temp_c < points[k + 1].temp_c

\* C21: for a temperature strictly between the first and the last
\* temperature of the curve, interpolate returns the linear interpolation
\* between the first pair of adjacent points (lo, hi) that brackets it,
\* rounded to a nearest integer: lo's duty at lo's temperature, hi's duty
\* at hi's, and always a duty between the two, inclusive.  On a curve with
\* strictly increasing temperatures, at the temperature of any point it
\* returns that point's duty.
C21_Interior ==
    (/\ Interpolated
     /\ FirstPoint.temp_c < temp_c
     /\ temp_c < LastPoint.temp_c)
    => LET points == the_curve.points
           v == returned.value
       IN  /\ \E k \in 1..(Len(points) - 1) :
                 /\ Brackets(points, k, temp_c)
                 /\ \A j \in 1..(k - 1) : ~Brackets(points, j, temp_c)
                 /\ LET lo == points[k]
                        hi == points[k + 1]
                        range_t == hi.temp_c - lo.temp_c
                    IN  /\ range_t = 0 => v = lo.pwm
                        /\ range_t > 0 =>
                              Nearest(v, lo.pwm * range_t
                                         + (temp_c - lo.temp_c) * (hi.pwm - lo.pwm),
                                      range_t)
                        /\ temp_c = lo.temp_c => v = lo.pwm
                        /\ (temp_c = hi.temp_c /\ range_t > 0) => v = hi.pwm
                        /\ \/ lo.pwm <= v /\ v <= hi.pwm
                           \/ hi.pwm <= v /\ v <= lo.pwm
           /\ StrictlyIncreasing(points) =>
                 \A k \in 1..Len(points) :
                    points[k].temp_c = temp_c => v = points[k].pwm

\* interpolate has returned the duty of the middle point of a curve at
\* that point's temperature.
C21_Witness ==
    /\ Interpolated
    /\ Len(the_curve.points) = 3
    /\ StrictlyIncreasing(the_curve.points)
    /\ temp_c = the_curve.points[2].temp_c
    /\ FirstPoint.pwm = 255
    /\ the_curve.points[2].pwm = 100
    /\ LastPoint.pwm = 0
    /\ returned.value = 100

\* Some adjacent pair of the points shares a temperature.
HasTie(points) ==
    \E k \in 1..(Len(points) - 1) : points[k].temp_c = points[k + 1].temp_c

\* C22: validate returns an error for every curve of fewer than two
\* points and for every curve in which some adjacent pair of stored points
\* does not have strictly increasing temperature, and Ok for every other
\* curve; a curve FanCurve::new has just built fails validate only on the
\* number of points or on a tie.
C22_Validate ==
    /\ [](returned.method = "validate" =>
            LET points == the_curve.points
            IN  /\ Len(points) < 2 => returned.value # ValidateOk
                /\ ~StrictlyIncreasing(points) => returned.value # ValidateOk
                /\ (Len(points) >= 2 /\ StrictlyIncreasing(points))
                      => returned.value = ValidateOk)
    /\ [][New => (Validate(the_curve') # ValidateOk
                     => \/ Len(the_curve'.points) < 2
                        \/ HasTie(the_curve'.points))]_vars

\* validate has refused a curve of three points that FanCurve::new built
\* with a tie, and the tie is the only thing wrong with it.
C22_Witness ==
    /\ returned.method = "validate"
    /\ returned.value = "Points must have strictly increasing temperatures"
    /\ the_curve.points = SortPoints(the_curve.points)
    /\ Len(the_curve.points) = 3
    /\ HasTie(the_curve.points)
    /\ the_curve.points[1].temp_c < the_curve.points[2].temp_c

\* The step is a call of apply_assignments on its own.
Applies == pass'.method = "apply_assignments" /\ npass' = npass + 1

\* C23: apply_assignments leaves the Configuration as it is, and called
\* again on the same configuration with the same readings and the same
\* writes failing it leaves the mode and the duty of every fan as the first
\* call left them.
C23_Idempotent ==
    [][Applies =>
         /\ config' = config
         /\ file' = file
         /\ (/\ pass.method = "apply_assignments"
             /\ pass.fault = pass'.fault
             /\ pass.temp_map = pass'.temp_map) => hw' = hw]_vars

\* apply_assignments has been called a second time, with a reading and no
\* failure, on a fan the first call put on a curve duty and on one it gave
\* a manual duty: it wrote both again and the hardware is as it was.
C23_Witness ==
    /\ pass.method = "apply_assignments"
    /\ pass.repeats
    /\ pass.fault = {}
    /\ config = EditedConfig
    /\ Len(pass.log) = 4
    /\ pass.before = hw
    /\ hw.enable[HwFans[1]] = 1
    /\ hw.pwm[HwFans[2]] = 200
    /\ hw # InitialHw

\* The writes of a log that went to the fan f, in order.
WritesTo(log, f) == SelectSeq(log, LAMBDA w : w.fan = f)

\* What the pass followed last writes to the fan f when f is the only entry
\* of the assignment table.
AloneWrites(f) ==
    IF pass.method = "apply_assignments"
    THEN ApplyFan(Io(pass.before), pass.fault, pass.temp_map, fans, config, f).log
    ELSE CurveEngineFan(Io(pass.before), pass.fault, pass.temp_map, fans, config, f).log

\* C24: in a pass of the reconciler or of the curve engine every fan of the
\* assignment table receives the writes its own assignment calls for,
\* whatever happened to the other fans: a failed write, an unknown fan id,
\* a missing curve or a missing reading for one fan does not end the pass.
C24_Isolation ==
    pass.method # "none" =>
       \A f \in Assigned(config) : WritesTo(pass.log, f) = AloneWrites(f)

\* The reconciler failed to put the first fan it visited in manual mode,
\* and went on to give the other fan its mode and its duty.
C24_Witness ==
    /\ pass.method = "apply_assignments"
    /\ config = TwoCurves
    /\ Len(pass.log) = 3
    /\ ~pass.log[1].ok
    /\ pass.log[1].file = "pwm_enable"
    /\ pass.log[2].fan # pass.log[1].fan
    /\ pass.log[2].ok /\ pass.log[2].file = "pwm_enable"
    /\ pass.log[3].ok /\ pass.log[3].file = "pwm"
    /\ pass.log[3].fan = pass.log[2].fan

\* The fan ids whose assignment is a curve.
CurveFans == {f \in FanIds : config.fans[f].mode = "curve"}

\* The curve of the fan's assignment is in the list and its sensor has a
\* reading in the readings of the pass followed last.
Resolves(f) ==
    /\ \E i \in 1..Len(config.curves) :
          config.curves[i].name = config.fans[f].curve_name
    /\ config.fans[f].temp_sensor_id \in DOMAIN pass.temp_map

\* interpolate(curve, snapshot[sensor]) for the fan's assignment.
Target(f) ==
    Interpolate(FindCurve(config.curves, config.fans[f].curve_name),
                pass.temp_map[config.fans[f].temp_sensor_id])

\* C27: in a tick, every fan whose assignment is a curve that exists, read
\* from a sensor that has a reading, and whose id is a discovered fan, is
\* issued exactly one write, of the duty interpolate(curve, reading); a fan
\* on a curve whose curve or reading is missing is issued no write and
\* keeps its duty.
C27_TickWrites ==
    pass.method = "run_curve_engine" =>
       \A f \in CurveFans :
          LET ws == WritesTo(pass.log, f)
          IN  IF Resolves(f) /\ f \in Range(fans)
              THEN /\ Len(ws) = 1
                   /\ ws[1].file = "pwm"
                   /\ ws[1].value = Target(f)
                   /\ ws[1].ok => hw.pwm[f] = Target(f)
              ELSE /\ ws = <<>>
                   /\ f \in HwFanSet => hw.pwm[f] = pass.before.pwm[f]

\* A tick at 85 degrees has written the duty of the silent curve to one
\* fan and the duty of the performance curve to the other.
C27_Witness ==
    /\ pass.method = "run_curve_engine"
    /\ config = TwoCurves
    /\ pass.temp_map = (HwSensors[1] :> 85)
    /\ Len(pass.log) = 2
    /\ hw.pwm[HwFans[1]] = 230
    /\ hw.pwm[HwFans[2]] = 255

\* The step is a call of run_curve_engine on its own.
Ticks == pass'.method = "run_curve_engine" /\ npass' = npass + 1

\* C28: a tick leaves the Configuration as it is, issues no write to a fan
\* whose assignment is auto or manual or that has no entry, and writes no
\* pwm_enable file.
C28_TickConfined ==
    /\ [][Ticks => /\ config' = config
                   /\ file' = file
                   /\ hw'.enable = hw.enable
                   /\ \A f \in HwFanSet \ CurveFans : hw'.pwm[f] = hw.pwm[f]]_vars
    /\ [](pass.method = "run_curve_engine" =>
            \A k \in 1..Len(pass.log) :
               /\ pass.log[k].file = "pwm"
               /\ pass.log[k].fan \in CurveFans)

\* A tick has written the duty of the one fan on a curve; the fan on a
\* manual duty and the modes are as they were.
C28_Witness ==
    /\ pass.method = "run_curve_engine"
    /\ config = EditedConfig
    /\ Len(pass.log) = 1
    /\ pass.log[1].fan = HwFans[1]
    /\ pass.log[1].ok
    /\ hw.pwm[HwFans[1]] # pass.before.pwm[HwFans[1]]
    /\ hw.pwm[HwFans[2]] = pass.before.pwm[HwFans[2]]
    /\ hw.enable = pass.before.enable

\* C29: for a discovered fan on a curve the reconciler first writes manual
\* mode to pwm_enable; when that write succeeds and the curve and the
\* reading resolve it then issues exactly one write, of the duty
\* interpolate(curve, reading); when the curve or the reading is missing
\* the fan is left in manual mode with no duty write.  When the mode write
\* fails the fan gets no further write.
C29_CurveArm ==
    pass.method = "apply_assignments" =>
       \A f \in CurveFans \cap Range(fans) :
          LET ws == WritesTo(pass.log, f)
          IN  /\ Len(ws) >= 1
              /\ ws[1].file = "pwm_enable"
              /\ ws[1].value = 1
              /\ ws[1].ok => hw.enable[f] = 1
              /\ IF ws[1].ok /\ Resolves(f)
                 THEN /\ Len(ws) = 2
                      /\ ws[2].file = "pwm"
                      /\ ws[2].value = Target(f)
                      /\ ws[2].ok => hw.pwm[f] = Target(f)
                 ELSE /\ Len(ws) = 1
                      /\ hw.pwm[f] = pass.before.pwm[f]

\* The reconciler has put two fans in manual mode and written neither a
\* duty: the curve of one is not in the list and the sensor of the other
\* has no reading.
C29_Witness ==
    /\ pass.method = "apply_assignments"
    /\ config = Dangling
    /\ pass.temp_map = (HwSensors[1] :> 40)
    /\ Len(pass.log) = 2
    /\ \A k \in 1..2 : pass.log[k].file = "pwm_enable" /\ pass.log[k].ok
    /\ hw.enable = [f \in HwFanSet |-> 1]
    /\ hw.pwm = pass.before.pwm

\* The request names a fan that was not discovered or, a SetCurve, a curve
\* that is not in the list or a sensor that was not discovered.
FailsValidation(req) ==
    /\ req.kind \in {"SetManual", "SetCurve", "SetAuto"}
    /\ \/ req.fan_id \notin Range(fans)
       \/ /\ req.kind = "SetCurve"
          /\ \/ \A i \in 1..Len(config.curves) :
                   config.curves[i].name # req.curve_name
             \/ req.temp_sensor_id \notin Range(sensors)

\* C30: a SetManual, SetCurve or SetAuto that names an unknown fan, an
\* unknown curve or an unknown sensor issues no hardware write, and the
\* mode and the duty of every fan are after it what they were before.
C30_RefusedWritesNothing ==
    [][\A c \in Conns :
          (Returns(c) /\ FailsValidation(connReq[c])) =>
             /\ connLog'[c] = <<>>
             /\ hw' = hw
             /\ connResp'[c].kind = "Error"]_vars

\* A SetCurve for a discovered fan and an existing curve has been refused
\* for its sensor, and nothing was written.
C30_Witness ==
    \E c \in Conns :
       /\ connPc[c] = "write"
       /\ connReq[c].kind = "SetCurve"
       /\ connReq[c].fan_id \in Range(fans)
       /\ HasCurve(config.curves, connReq[c].curve_name)
       /\ connReq[c].temp_sensor_id \notin Range(sensors)
       /\ sensors # <<>>
       /\ connResp[c] = ErrorResponse("Unknown temp sensor")
       /\ connLog[c] = <<>>

\* main has returned an error before the accept loop.
StartupFailed == mainPc \in {"bind_failed", "permissions_failed"}

\* Before the socket is bound: the configuration is the file's, or the
\* default when the file does not load, and the fans and sensors are those
\* of the machine, or none when the enumeration failed.
Degraded ==
    mainPc = "bind" =>
       /\ config = IF LoadConfig(file).ok THEN LoadConfig(file).config
                   ELSE DefaultConfig
       /\ \/ fans = HwFans /\ sensors = HwSensors
          \/ fans = <<>> /\ sensors = <<>>

\* C25, as stated: a configuration that does not load gives the default, a
\* failed enumeration gives empty lists, the daemon goes on in both cases,
\* and main returns an error at startup only when the bind failed.
C25_StartupAsStated ==
    /\ Degraded
    /\ StartupFailed => mainPc = "bind_failed"

\* C25, amended: a configuration that does not load gives the default, a
\* failed enumeration gives empty lists, and in both cases main goes on to
\* set up the socket; main returns an error at startup only when the bind
\* or the change of the socket file's permissions failed, and otherwise
\* enters the accept loop.
C25_Startup ==
    /\ []Degraded
    /\ [][/\ mainPc = "boot" => mainPc' = "bind"
          /\ mainPc = "bind" => (mainPc' = "select" \/ StartupFailed')
          /\ StartupFailed' => mainPc = "bind"]_vars

\* The accept loop has been entered with the default configuration and
\* without fans or sensors: the file did not parse and the enumeration
\* failed.
C25_Witness ==
    /\ mainPc = "select"
    /\ file = FileCorrupt
    /\ config = DefaultConfig
    /\ fans = <<>>
    /\ sensors = <<>>
    /\ accepted = "none"
    /\ sent = 0

\* The task of connection c is suspended between reading a request and
\* writing its response: it waits for the Mutex another task holds, or for
\* the socket to take the response.
MidRequest(c) ==
    \/ connPc[c] = "lock" /\ lockHolder # NoOne
    \/ connPc[c] = "write"

\* C26: once the shutdown notification has been broadcast, a connection
\* task is not dropped between reading a request and writing its
\* response, and it dispatches at most one more request: of the lines it
\* reads after the broadcast, only the first reaches process_request.
C26_DrainsOneCycle ==
    /\ [](mainPc = "exited" => \A c \in Conns : ~MidRequest(c))
    /\ \A c \in Conns : \A n \in 0..MaxRequests :
          [](sigPc = "done" /\ nread[c] = n =>
                [](connPc[c] = "body" => nread[c] <= n + 1))

\* The requests that only read the state or only write the file.
Passive == {"GetStatus", "ListCurves", "SaveConfig", "Subscribe", "Unsubscribe"}

\* C31: GetStatus, ListCurves, SaveConfig, Subscribe and Unsubscribe leave
\* the configuration in memory as it is and issue no hardware write,
\* whether SaveConfig succeeds or fails; Subscribe and Unsubscribe are
\* answered Ok.
C31_PassiveRequests ==
    [][\A c \in Conns :
          (Returns(c) /\ connReq[c].kind \in Passive) =>
             /\ config' = config
             /\ connLog'[c] = <<>>
             /\ hw' = hw
             /\ connReq[c].kind \in {"Subscribe", "Unsubscribe"}
                   => connResp'[c].kind = "Ok"
             /\ connReq[c].kind \in {"GetStatus", "ListCurves"}
                   => file' = file]_vars

\* A SaveConfig has succeeded on a configuration that assigns fans, and
\* wrote the file and nothing else.
C31_Witness ==
    \E c \in Conns :
       /\ connPc[c] = "write"
       /\ connReq[c].kind = "SaveConfig"
       /\ connResp[c].kind = "Ok"
       /\ config = EditedConfig
       /\ fans = HwFans
       /\ file = FileOf(config)
       /\ connLog[c] = <<>>

\* C32: the loop of a connection ends at a read that returns no line and
\* at a response write that fails; once ended it reads and dispatches
\* nothing more; and the task ends without the state lock, which its
\* ending leaves as it was for the other tasks.
C32_ConnectionEnds ==
    /\ [](\A c \in Conns : connPc[c] = "closed" => lockHolder # c)
    /\ [][\A c \in Conns :
            /\ connPc[c] = "closed" =>
                  /\ connPc'[c] = "closed"
                  /\ nread'[c] = nread[c]
                  /\ out'[c] = out[c]
            /\ (connPc[c] # "closed" /\ connPc'[c] = "closed") =>
                  /\ connPc[c] \in {"read", "write"}
                  /\ lockHolder # c
                  /\ lockHolder' = lockHolder
                  /\ << config, hw >>' = << config, hw >>
            /\ (connPc[c] = "read" /\ connPc'[c] # "read"
                   /\ nread'[c] = nread[c]) => connPc'[c] = "closed"
            /\ (connPc[c] = "write" /\ connPc'[c] # "write"
                   /\ Encode(connResp[c]).ok /\ out'[c] = out[c])
                  => connPc'[c] = "closed"]_vars

\* One connection has ended at a failed write of the response to its
\* first request, and the other connection is inside the state.
C32_Witness ==
    /\ connPc["c1"] = "closed"
    /\ nread["c1"] = 1
    /\ out["c1"] = <<>>
    /\ connPc["c2"] = "body"
    /\ lockHolder = "c2"

\* The tasks waiting at state.lock().await.
Waiting ==
    {c \in Conns : connPc[c] = "lock"}
    \cup (IF curvePc = "tick_lock" THEN {"curve"} ELSE {})
    \cup (IF sigPc = "lock" THEN {"signal"} ELSE {})

\* C33: the lock is taken only when it is free, so by no task that holds
\* it; it is held exactly while its holder is inside its unit of work (a
\* request, whatever it returns, a tick, the restore pass); and with the
\* tasks scheduled fairly every task that waits for the lock gets it, as
\* long as the process has not exited.
C33_DeadlockFree ==
    /\ [](lockHolder # NoOne => InState = {lockHolder})
    /\ [](lockHolder = NoOne => InState = {})
    /\ [][lockHolder' # lockHolder =>
            \/ lockHolder = NoOne /\ lockHolder' \in Waiting
            \/ lockHolder' = NoOne /\ lockHolder \notin InState']_vars
    /\ \A t \in Conns \cup {"curve", "signal"} :
          (t \in Waiting) ~> (t \in InState \/ mainPc = "exited")

\* A request and a tick wait for the lock while the restore pass holds
\* it.
C33_Witness ==
    /\ lockHolder = "signal"
    /\ sigPc = "restore"
    /\ connPc["c1"] = "lock"
    /\ curvePc = "tick_lock"
    /\ connPc["c2"] = "idle"

\* C34: a SetManual that is answered with a hardware error leaves the
\* mode and the duty of every fan as they were before the request.
C34_FailedManualLeavesHardware ==
    [][\A c \in Conns :
          (/\ Returns(c)
           /\ connReq[c].kind = "SetManual"
           /\ connResp'[c] = ErrorResponse("Failed to set PWM"))
          => hw' = hw]_vars

\* C35: in every state every Curve entry of the assignment table names a
\* curve that is in the list of curves.
C35_CurveAssignmentsResolve ==
    \A f \in FanIds :
       config.fans[f].mode = "curve" =>
          \E i \in 1..Len(config.curves) :
             config.curves[i].name = config.fans[f].curve_name

\* The shutdown handler has run its restore pass and released the Mutex.
RestorePassDone ==
    /\ restore_on_exit
    /\ sigPc \in {"notify", "done"}

ReloadLines == {[type |-> "reload_config"]}

MaxReloads == 2

\* The daemon from its start to its exit, one client asking it to reload
\* the configuration file, which an administrator may have edited.
NextReloads ==
    \/ Startup
    \/ Bind
    \/ Signal
    \/ SigLock
    \/ SigRestore
    \/ SigNotify
    \/ TickFire
    \/ TickLock
    \/ TickRun
    \/ CurveShutdown
    \/ Accept({"c1"})
    \/ AcceptBody
    \/ MainShutdown
    \/ Cleanup
    \/ ConnRead("c1", ReloadLines, MaxReloads)
    \/ ConnEof("c1")
    \/ ConnLock("c1")
    \/ ConnBody("c1")
    \/ ConnWrite("c1")

Reloads == Init /\ [][NextReloads]_vars

\* C37: the flag the shutdown handler consults and the period of the curve
\* engine's interval are the values captured from the configuration loaded
\* at startup: no step after startup changes them, a ReloadConfig that
\* changes the daemon section in memory included, and the handler runs the
\* restore pass exactly when the captured flag is set.
C37_CapturedAtStartup ==
    /\ [][mainPc # "boot" =>
             /\ restore_on_exit' = restore_on_exit
             /\ poll_interval' = poll_interval]_vars
    /\ [][(sigPc = "wait" /\ sigPc' # "wait") =>
             (sigPc' = "lock") = restore_on_exit]_vars
    /\ [](sigPc \in {"lock", "restore"} => restore_on_exit)
    /\ [](Len(restoreLog) > 0 => restore_on_exit)

\* The daemon started without a configuration file, a ReloadConfig then
\* read a file that turns restore_on_exit off and sets another poll
\* interval, and at the signal the fans were restored all the same.
C37_Witness ==
    /\ mainPc = "exited"
    /\ connResp["c1"] = OkResponse("Config reloaded")
    /\ restore_on_exit
    /\ ~config.daemon.restore_on_exit
    /\ poll_interval = DEFAULT_POLL_INTERVAL_MS
    /\ config.daemon.poll_interval_ms # poll_interval
    /\ RestoreIssued = Range(fans)
    /\ fans = HwFans

\* The administrator's configuration with restore_on_exit left on.
RestoringConfig == [EditedConfig EXCEPT !.daemon.restore_on_exit = TRUE]

InitExits == ProcessInit({FileOf(RestoringConfig)}) /\ CurveIdle /\ PassIdle

\* The daemon from its start to its exit, started on a configuration that
\* puts fans under manual control and asks for them to be restored.
Exits == InitExits /\ [][Next]_vars

\* main has returned: after the accept loop, or with the error of the bind
\* or of set_permissions.
ProcessExited == mainPc \in {"exited", "bind_failed", "permissions_failed"}

\* C38: whenever the process has exited with restore_on_exit set, a
\* restore-to-automatic write has been issued to every discovered fan.
C38_RestoreOnEveryExit ==
    (ProcessExited /\ restore_on_exit) => RestoreIssued = Range(fans)

====
